---- MODULE Spec2Model ----
(***************************************************************************)
(* Model of the in-browser voxel editor (EDITOR_SCRIPT in                  *)
(* src/services/gemini.ts): command history, tool state machine,           *)
(* selection / transform-gizmo controller and the scene graph it edits.    *)
(*                                                                         *)
(* A node transform is the record [position, quaternion, scale]: the       *)
(* position a triple of integers, the quaternion and the (uniform) scale   *)
(* one integer each.  Ray hit points and box sides are in tenths of a      *)
(* grid unit.                                                              *)
(* Handlers are pure operators over the editor state record `St`; every    *)
(* action is one DOM event handler of the script.                          *)
(***************************************************************************)
EXTENDS Integers, Sequences, FiniteSets, TLC

VARIABLES
    activeTool,          \* state.activeTool
    selectedObject,      \* state.selectedObject
    hoveredVoxel,        \* state.hoveredVoxel
    parent,              \* Object3D.parent of every node
    children,            \* Object3D.children of the scene and of every node
    locked,              \* obj.userData.locked
    xform,               \* position / quaternion / scale of every node
    kind,                \* obj.type, or "Free" for a node not yet created
    name,                \* obj.name
    history,             \* CommandManager.history
    index,               \* CommandManager.index
    gizmoStart,          \* the single gizmoStart snapshot object
    gizmoObject,         \* controlGizmo.object
    gizmoMode,           \* controlGizmo.mode
    gizmoAxis,           \* controlGizmo.axis !== null
    dragging,            \* controlGizmo.dragging
    selectionBoxVisible, \* selectionBox.visible
    ghostVisible,        \* ghostCursor.visible
    ctxMenu,             \* the context menu: hidden, or shown for an object
    tree,                \* rows of #ve-scene-tree as last rendered
    undoDisabled,        \* #ve-btn-undo.disabled
    redoDisabled,        \* #ve-btn-redo.disabled
    brushSize,           \* state.brushSize
    brushColor,          \* state.brushColor
    lastPipetteClick,    \* state.lastPipetteClick (ms)
    now,                 \* Date.now() (ms)
    width,               \* geometry.parameters.width of every box mesh (tenths)
    color,               \* material.color of every mesh
    instanceHidden,      \* instances of an InstancedMesh whose matrix was scaled to 0
    isPaused,            \* state.isPaused
    controlsTarget,      \* window.controls.target
    env,                 \* what the page provided and what the script made of it
    pointer,             \* history variable: the hit of the last hover computation
    app,                 \* the application shell's React state and requests
    linear,              \* history variable: no undo, redo or abandoned drag so far
    events               \* history variable: input events handled so far

vars == <<activeTool, selectedObject, hoveredVoxel, parent, children, locked,
          xform, kind, name, history, index, gizmoStart, gizmoObject,
          gizmoMode, gizmoAxis, dragging, selectionBoxVisible, ghostVisible,
          ctxMenu, tree, undoDisabled, redoDisabled, brushSize, brushColor,
          lastPipetteClick, now, width, color, instanceHidden, isPaused,
          controlsTarget, env, app, pointer, linear, events>>

----------------------------------------------------------------------------
(* Bounds *)

\* number of nodes the editor may create (Build, Clone) in one behaviour
MaxNew == 3
\* largest grid coordinate a hover target or a drag can produce
MaxCoord == 1
\* largest number of objects one ray intersects
MaxHits == 1
\* largest number of commands kept in the log
MaxHistory == 3
\* largest number of state-changing input events in one behaviour of Spec
MaxEvents == 6
\* largest number of gestures in one behaviour of SpecHistory
MaxGestures == 4
\* largest instance id of an InstancedMesh
MaxInstance == 1

----------------------------------------------------------------------------
(* Scene graph universe *)

None == "none"
Scene == "scene"

NewNodeNames == <<"N1", "N2", "N3", "N4", "N5">>
NewNodes == {NewNodeNames[i] : i \in 1..MaxNew}
InitNodes == {"A", "G", "B"}
\* the ghost cursor mesh, a child of the scene like the nodes it edits
GhostCursor == "ghostCursor"
Nodes == InitNodes \cup NewNodes \cup {GhostCursor}
Containers == {Scene} \cup Nodes

Tools == {"select", "move", "rotate", "scale", "build", "break", "pipette"}
GizmoTools == {"move", "rotate", "scale"}

IdentityXform == [position |-> <<0, 0, 0>>, quaternion |-> 0, scale |-> 1]

InitParent == [n \in Nodes |-> IF n \in {"A", "G", GhostCursor} THEN Scene
                               ELSE IF n = "B" THEN "G" ELSE None]
InitChildren == [c \in Containers |-> IF c = Scene THEN <<"A", "G", GhostCursor>>
                                      ELSE IF c = "G" THEN <<"B">> ELSE <<>>]
InitKind == [n \in Nodes |-> IF n \in {"A", "B", GhostCursor} THEN "Mesh"
                             ELSE IF n = "G" THEN "Group" ELSE "Free"]

----------------------------------------------------------------------------
(* The editor state as one record, so that handlers compose as functions *)

St == [activeTool |-> activeTool, selectedObject |-> selectedObject,
       hoveredVoxel |-> hoveredVoxel, parent |-> parent, children |-> children,
       locked |-> locked, xform |-> xform, kind |-> kind, name |-> name,
       history |-> history, index |-> index, gizmoStart |-> gizmoStart,
       gizmoObject |-> gizmoObject, gizmoMode |-> gizmoMode,
       gizmoAxis |-> gizmoAxis, dragging |-> dragging,
       selectionBoxVisible |-> selectionBoxVisible,
       ghostVisible |-> ghostVisible, ctxMenu |-> ctxMenu, tree |-> tree,
       undoDisabled |-> undoDisabled, redoDisabled |-> redoDisabled,
       brushSize |-> brushSize, brushColor |-> brushColor,
       lastPipetteClick |-> lastPipetteClick, now |-> now, width |-> width,
       color |-> color, instanceHidden |-> instanceHidden,
       isPaused |-> isPaused, controlsTarget |-> controlsTarget,
       env |-> env,
       pointer |-> pointer, linear |-> linear]

Becomes(s) ==
    /\ activeTool' = s.activeTool
    /\ selectedObject' = s.selectedObject
    /\ hoveredVoxel' = s.hoveredVoxel
    /\ parent' = s.parent
    /\ children' = s.children
    /\ locked' = s.locked
    /\ xform' = s.xform
    /\ kind' = s.kind
    /\ name' = s.name
    /\ history' = s.history
    /\ index' = s.index
    /\ gizmoStart' = s.gizmoStart
    /\ gizmoObject' = s.gizmoObject
    /\ gizmoMode' = s.gizmoMode
    /\ gizmoAxis' = s.gizmoAxis
    /\ dragging' = s.dragging
    /\ selectionBoxVisible' = s.selectionBoxVisible
    /\ ghostVisible' = s.ghostVisible
    /\ ctxMenu' = s.ctxMenu
    /\ tree' = s.tree
    /\ undoDisabled' = s.undoDisabled
    /\ redoDisabled' = s.redoDisabled
    /\ brushSize' = s.brushSize
    /\ brushColor' = s.brushColor
    /\ lastPipetteClick' = s.lastPipetteClick
    /\ now' = s.now
    /\ width' = s.width
    /\ color' = s.color
    /\ instanceHidden' = s.instanceHidden
    /\ isPaused' = s.isPaused
    /\ controlsTarget' = s.controlsTarget
    /\ env' = s.env
    /\ app' = app
    /\ pointer' = s.pointer
    /\ linear' = s.linear

\* one input event handled by a listener the script installed: the handler
\* takes the editor from St to s
Event(s) ==
    /\ env.installed
    /\ events < MaxEvents
    /\ \E r \in {s} :
          /\ Becomes(r)
          /\ events' = IF r = St THEN events ELSE events + 1

\* a user gesture: several events in a row, taking the editor from St to s
Gesture(s) ==
    /\ env.installed
    /\ events < MaxGestures
    /\ \E r \in {s} : Becomes(r)
    /\ events' = events + 1

----------------------------------------------------------------------------
(* three.js Object3D and TransformControls operations used by the script *)

SeqWithout(q, x) == SelectSeq(q, LAMBDA y : y # x)
InSeq(x, q) == \E i \in 1..Len(q) : q[i] = x

\* p.remove(c): nothing happens unless c is one of p's children
Object3DRemove(s, p, c) ==
    IF InSeq(c, s.children[p])
    THEN [s EXCEPT !.children[p] = SeqWithout(@, c), !.parent[c] = None]
    ELSE s

\* p.add(c): c leaves its current parent first, then is appended to p
Object3DAdd(s, p, c) ==
    LET s1 == IF s.parent[c] # None THEN Object3DRemove(s, s.parent[c], c) ELSE s
    IN [s1 EXCEPT !.parent[c] = p, !.children[p] = Append(@, c)]

\* controlGizmo.detach()
GizmoDetach(s) == [s EXCEPT !.gizmoObject = None, !.gizmoAxis = FALSE]

\* controlGizmo.attach(obj)
GizmoAttach(s, obj) == [s EXCEPT !.gizmoObject = obj]

\* obj.parent || window.scene
ParentOrScene(s, obj) == IF s.parent[obj] # None THEN s.parent[obj] ELSE Scene

RECURSIVE InGraph(_, _)
\* obj is the scene or one of its descendants
InGraph(s, obj) ==
    IF obj = Scene THEN TRUE
    ELSE IF obj = None THEN FALSE
    ELSE InGraph(s, s.parent[obj])

RECURSIVE Flatten(_, _)
RECURSIVE FlattenAll(_, _)
\* depth-first, children-order traversal of the subtree under c (c included
\* unless it is the scene), as Object3D.traverse / getObjectByName visit it
Flatten(s, c) == (IF c = Scene THEN <<>> ELSE <<c>>) \o FlattenAll(s, s.children[c])
FlattenAll(s, q) == IF q = <<>> THEN <<>> ELSE Flatten(s, Head(q)) \o FlattenAll(s, Tail(q))

\* window.scene.getObjectByName(nm): first match in traversal order, or None
GetObjectByName(s, nm) ==
    LET q == SelectSeq(Flatten(s, Scene), LAMBDA n : s.name[n] = nm)
    IN IF q = <<>> THEN None ELSE Head(q)

----------------------------------------------------------------------------
(* updateUI / updateTree: DOM projections of the state *)

updateUI(s) ==
    [s EXCEPT !.undoDisabled = (s.index < 0),
              !.redoDisabled = (s.index >= Len(s.history) - 1)]

\* obj.type.includes('Light'), over the types of three.js
TypeIncludesLight(type) ==
    type \in {"AmbientLight", "DirectionalLight", "HemisphereLight",
              "PointLight", "RectAreaLight", "SpotLight", "LightProbe"}

\* the top-level scene children that get a row: not the editor's widgets
\* (of which the ghost cursor is the one that is a node here), no light and
\* no camera helper
TreeRows(s) ==
    SelectSeq(s.children[Scene],
              LAMBDA obj : /\ obj # GhostCursor
                           /\ ~TypeIncludesLight(s.kind[obj])
                           /\ s.kind[obj] # "CameraHelper")

\* one row per listed child, with its selection highlight and lock indicator
updateTree(s) ==
    LET rows == TreeRows(s)
    IN [s EXCEPT !.tree = [i \in 1..Len(rows) |->
           [obj |-> rows[i], selected |-> (rows[i] = s.selectedObject),
            locked |-> s.locked[rows[i]]]]]

----------------------------------------------------------------------------
(* selectObject, setTool *)

\* selectObject attaching whatever the lock flag of obj
selectObject_IgnoresLock(s, obj) ==
    LET s1 == updateTree([s EXCEPT !.selectedObject = obj])
    IN IF obj # None
       THEN LET s2 == [s1 EXCEPT !.selectionBoxVisible = TRUE]
            IN IF s2.activeTool \in GizmoTools THEN GizmoAttach(s2, obj) ELSE s2
       ELSE GizmoDetach([s1 EXCEPT !.selectionBoxVisible = FALSE])

selectObject(s, obj) ==
    LET s1 == updateTree([s EXCEPT !.selectedObject = obj])
    IN IF obj # None
       THEN LET s2 == [s1 EXCEPT !.selectionBoxVisible = TRUE]
            IN IF s2.locked[obj] THEN GizmoDetach(s2)
               ELSE IF s2.activeTool \in GizmoTools THEN GizmoAttach(s2, obj)
               ELSE s2
       ELSE GizmoDetach([s1 EXCEPT !.selectionBoxVisible = FALSE])

ModeOfTool(toolId) ==
    IF toolId = "move" THEN "translate"
    ELSE IF toolId = "rotate" THEN "rotate" ELSE "scale"

\* togglePause(); the button's icon and title follow the flag
togglePause(s) == [s EXCEPT !.isPaused = ~s.isPaused]

\* setTool doing nothing while the scene is paused
setTool_WhenRunning(s, toolId) ==
    IF s.isPaused THEN s
    ELSE LET s1 == updateUI([s EXCEPT !.activeTool = toolId])
             s2 == IF toolId \in GizmoTools
                   THEN IF s1.selectedObject # None
                        THEN IF s1.locked[s1.selectedObject] THEN GizmoDetach(s1)
                             ELSE [GizmoAttach(s1, s1.selectedObject)
                                      EXCEPT !.gizmoMode = ModeOfTool(toolId)]
                        ELSE s1
                   ELSE GizmoDetach(s1)
         IN [s2 EXCEPT !.ghostVisible = (toolId \in {"build", "break"})]

\* setTool leaving the ghost cursor as it was
setTool_KeepsGhost(s, toolId) ==
    LET s1 == updateUI([s EXCEPT !.activeTool = toolId])
    IN IF toolId \in GizmoTools
       THEN IF s1.selectedObject # None
            THEN IF s1.locked[s1.selectedObject] THEN GizmoDetach(s1)
                 ELSE [GizmoAttach(s1, s1.selectedObject)
                          EXCEPT !.gizmoMode = ModeOfTool(toolId)]
            ELSE s1
       ELSE GizmoDetach(s1)

\* setTool attaching to the selection whatever its lock flag
setTool_IgnoresLock(s, toolId) ==
    LET s1 == updateUI([s EXCEPT !.activeTool = toolId])
        s2 == IF toolId \in GizmoTools
              THEN IF s1.selectedObject # None
                   THEN [GizmoAttach(s1, s1.selectedObject)
                            EXCEPT !.gizmoMode = ModeOfTool(toolId)]
                   ELSE s1
              ELSE GizmoDetach(s1)
    IN [s2 EXCEPT !.ghostVisible = (toolId \in {"build", "break"})]

setTool(s, toolId) ==
    LET s1 == updateUI([s EXCEPT !.activeTool = toolId])
        s2 == IF toolId \in GizmoTools
              THEN IF s1.selectedObject # None
                   THEN IF s1.locked[s1.selectedObject] THEN GizmoDetach(s1)
                        ELSE [GizmoAttach(s1, s1.selectedObject)
                                 EXCEPT !.gizmoMode = ModeOfTool(toolId)]
                   ELSE s1
              ELSE GizmoDetach(s1)
    IN [s2 EXCEPT !.ghostVisible = (toolId \in {"build", "break"})]

\* toolDefs: the tools with their shortcut keys; the separator entry has
\* neither id nor key
toolDefs == <<[id |-> "select", key |-> "v"], [id |-> "move", key |-> "g"],
              [id |-> "rotate", key |-> "r"], [id |-> "scale", key |-> "s"],
              [id |-> None, key |-> None],
              [id |-> "build", key |-> "b"], [id |-> "break", key |-> "x"],
              [id |-> "pipette", key |-> "i"]>>

\* keys a keydown event may carry besides Delete, Backspace and Ctrl+Z: the
\* shortcuts and one key that is none
Keys == {"v", "g", "r", "s", "b", "x", "i", "q"}

\* keydown listener, tool shortcut part: toolDefs.find(t => t.key === key)
keyDownTool(s, key) ==
    LET found == SelectSeq(toolDefs, LAMBDA d : d.key = key)
    IN IF found # <<>> THEN setTool(s, Head(found).id) ELSE s

----------------------------------------------------------------------------
(* Commands.  A command is a record; oldState of a TransformCommand is the   *)
(* reference it was constructed with, and that is always the one gizmoStart  *)
(* object (line 1133), so reading it reads the current gizmoStart.           *)

GizmoStartRef == "gizmoStart"
NoState == [position |-> <<0, 0, 0>>, quaternion |-> -1, scale |-> -1]

AddVoxelCommand(p, voxel) ==
    [type |-> "Add", parent |-> p, voxel |-> voxel,
     oldState |-> None, newState |-> NoState]
RemoveVoxelCommand(p, voxel) ==
    [type |-> "Remove", parent |-> p, voxel |-> voxel,
     oldState |-> None, newState |-> NoState]
TransformCommand(object, oldStateRef, newState) ==
    [type |-> "Transform", parent |-> None, voxel |-> object,
     oldState |-> oldStateRef, newState |-> newState]

\* the state an oldState reference denotes now
Deref(s, ref) == s.gizmoStart

\* cmd.execute() with a RemoveVoxelCommand that leaves the selection alone
CmdExecute_KeepsSelection(s, cmd) ==
    IF cmd.type = "Add"
    THEN updateTree(Object3DAdd(s, cmd.parent, cmd.voxel))
    ELSE IF cmd.type = "Remove"
    THEN updateTree(Object3DRemove(s, cmd.parent, cmd.voxel))
    ELSE [s EXCEPT !.xform[cmd.voxel] = cmd.newState]

\* cmd.execute()
CmdExecute(s, cmd) ==
    IF cmd.type = "Add"
    THEN updateTree(Object3DAdd(s, cmd.parent, cmd.voxel))
    ELSE IF cmd.type = "Remove"
    THEN LET s1 == Object3DRemove(s, cmd.parent, cmd.voxel)
             s2 == IF s1.selectedObject = cmd.voxel THEN selectObject(s1, None) ELSE s1
         IN updateTree(s2)
    ELSE [s EXCEPT !.xform[cmd.voxel] = cmd.newState]

\* cmd.undo() giving the node back without its lock flag
CmdUndo_Unlocks(s, cmd) ==
    LET s0 == [s EXCEPT !.locked[cmd.voxel] = FALSE]
    IN IF cmd.type = "Add"
       THEN updateTree(Object3DRemove(s0, cmd.parent, cmd.voxel))
       ELSE IF cmd.type = "Remove"
       THEN updateTree(Object3DAdd(s0, cmd.parent, cmd.voxel))
       ELSE [s0 EXCEPT !.xform[cmd.voxel] = Deref(s0, cmd.oldState)]

\* cmd.undo()
CmdUndo(s, cmd) ==
    IF cmd.type = "Add"
    THEN updateTree(Object3DRemove(s, cmd.parent, cmd.voxel))
    ELSE IF cmd.type = "Remove"
    THEN updateTree(Object3DAdd(s, cmd.parent, cmd.voxel))
    ELSE [s EXCEPT !.xform[cmd.voxel] = Deref(s, cmd.oldState)]

----------------------------------------------------------------------------
(* CommandManager *)

\* execute() appending without pruning the entries past the cursor
ManagerExecute_NoTruncate(s, cmd) ==
    LET s1 == CmdExecute(s, cmd)
    IN updateUI([s1 EXCEPT !.history = Append(@, cmd), !.index = @ + 1])

\* execute(cmd)
ManagerExecute(s, cmd) ==
    LET s1 == CmdExecute(s, cmd)
        s2 == IF s1.index < Len(s1.history) - 1
              THEN [s1 EXCEPT !.history = SubSeq(@, 1, s1.index + 1)]
              ELSE s1
    IN updateUI([s2 EXCEPT !.history = Append(@, cmd), !.index = @ + 1])

\* undo() moving the cursor back without testing it
ManagerUndo_NoGuard(s) ==
    LET s1 == IF s.index >= 0 THEN CmdUndo(s, s.history[s.index + 1]) ELSE s
    IN updateUI([s1 EXCEPT !.index = @ - 1])

\* undo() that leaves the buttons as they were
ManagerUndo_NoRefresh(s) ==
    IF s.index >= 0
    THEN LET s1 == CmdUndo(s, s.history[s.index + 1])
         IN [s1 EXCEPT !.index = @ - 1]
    ELSE s

\* undo() reverting the oldest command of the log instead of the one at the
\* cursor
ManagerUndo_RevertsFirst(s) ==
    IF s.index >= 0
    THEN LET s1 == CmdUndo(s, s.history[1])
         IN updateUI([s1 EXCEPT !.index = @ - 1])
    ELSE s

\* undo()
ManagerUndo(s) ==
    IF s.index >= 0
    THEN LET s1 == CmdUndo(s, s.history[s.index + 1])
         IN updateUI([s1 EXCEPT !.index = @ - 1])
    ELSE s

\* redo() moving the cursor forward without executing the command
ManagerRedo_NoExecute(s) ==
    IF s.index < Len(s.history) - 1
    THEN updateUI([s EXCEPT !.index = @ + 1])
    ELSE s

\* redo() putting the command it applies on the log once more
ManagerRedo_Appends(s) ==
    IF s.index < Len(s.history) - 1
    THEN LET s1 == [s EXCEPT !.index = @ + 1]
             cmd == s1.history[s1.index + 1]
         IN updateUI([CmdExecute(s1, cmd) EXCEPT !.history = Append(@, cmd)])
    ELSE s

\* redo()
ManagerRedo(s) ==
    IF s.index < Len(s.history) - 1
    THEN LET s1 == [s EXCEPT !.index = @ + 1]
         IN updateUI(CmdExecute(s1, s1.history[s1.index + 1]))
    ELSE s

----------------------------------------------------------------------------
(* Creation of nodes (new THREE.Mesh / new THREE.Group / obj.clone()) *)

FreeNodes(s) == SelectSeq(SubSeq(NewNodeNames, 1, MaxNew), LAMBDA n : s.kind[n] = "Free")

\* state.hoveredVoxel = null
\* intersects[0].instanceId of a hit that is not an instance: undefined
NoId == -1

NoHover == [x |-> 0, y |-> 0, z |-> 0, hitObj |-> None, hitId |-> NoId]

HiddenMenu == [shown |-> FALSE, obj |-> None, isLocked |-> FALSE]

\* the log is capped at MaxHistory commands: a handler that advances the
\* cursor runs only if the log keeps room for the command of a drag in progress
RoomInLog(s) == s.index + 1 + (IF s.dragging THEN 1 ELSE 0) < MaxHistory

\* raycaster.intersectObjects(window.scene.children, true): the meshes a ray
\* can meet, nearest first; any sequence of rendered meshes is possible
RenderedMeshes(s) ==
    {n \in Nodes : s.kind[n] \in {"Mesh", "InstancedMesh"} /\ InGraph(s, n)}
RECURSIVE SeqsUpTo(_, _)
SeqsUpTo(S, k) ==
    IF k = 0 THEN {<<>>}
    ELSE SeqsUpTo(S, k - 1) \cup {Append(q, x) : q \in {r \in SeqsUpTo(S, k - 1) : Len(r) = k - 1}, x \in S}
Intersections(s) == SeqsUpTo(RenderedMeshes(s), MaxHits)
\* the same with the pointer away from the ghost cursor
NodeIntersections(s) == SeqsUpTo(RenderedMeshes(s) \ {GhostCursor}, MaxHits)

\* intersects.find(pred): first element satisfying pred, or None
FindFirst(q, pred(_)) ==
    LET r == SelectSeq(q, pred) IN IF r = <<>> THEN None ELSE Head(r)

RECURSIVE LockedChain(_, _)
\* the while loop of the select branch: obj or one of its ancestors below
\* the scene is locked
LockedChain(s, check) ==
    IF check = None \/ check = Scene THEN FALSE
    ELSE IF s.locked[check] THEN TRUE
    ELSE LockedChain(s, s.parent[check])

----------------------------------------------------------------------------
(* Handlers *)

\* showCtxMenu(e, obj)
showCtxMenu(s, obj) ==
    LET s1 == selectObject(s, obj)
    IN [s1 EXCEPT !.ctxMenu = [shown |-> TRUE, obj |-> obj, isLocked |-> s1.locked[obj]]]

\* window 'click' listener
hideCtxMenu(s) == [s EXCEPT !.ctxMenu = HiddenMenu]

\* lockBtn.onclick that does not rebuild the rows
lockBtnClick_NoRefresh(s, obj) ==
    LET s1 == [s EXCEPT !.locked[obj] = ~@]
    IN IF obj = s1.selectedObject /\ s1.locked[obj] THEN GizmoDetach(s1) ELSE s1

\* lockBtn.onclick that only flips the flag
lockBtnClick_NoDetach(s, obj) ==
    updateTree([s EXCEPT !.locked[obj] = ~@])

\* lockBtn.onclick of the row of obj
lockBtnClick(s, obj) ==
    LET s1 == [s EXCEPT !.locked[obj] = ~@]
        s2 == IF obj = s1.selectedObject /\ s1.locked[obj] THEN GizmoDetach(s1) ELSE s1
    IN updateTree(s2)

\* keydown: Delete / Backspace
keyDelete(s) ==
    IF s.selectedObject # None /\ ~s.locked[s.selectedObject]
    THEN ManagerExecute(s, RemoveVoxelCommand(ParentOrScene(s, s.selectedObject), s.selectedObject))
    ELSE s

\* context menu item Delete
ctxDelete(s, obj) ==
    hideCtxMenu(ManagerExecute(s, RemoveVoxelCommand(ParentOrScene(s, obj), obj)))

\* obj.clone(): the copies of obj and of its descendants, in traversal order,
\* take the first free nodes; each copy has its original's kind, name,
\* userData and transform, and the copies are linked as the originals are
CloneSources(s, obj) == Flatten(s, obj)
CloneOf(s, obj, n) ==
    LET src == CloneSources(s, obj)
        i == CHOOSE j \in 1..Len(src) : src[j] = n
    IN FreeNodes(s)[i]
Object3DClone(s, obj) ==
    LET src == CloneSources(s, obj)
        new == SubSeq(FreeNodes(s), 1, Len(src))
        IsNew(n) == InSeq(n, new)
        SrcOf(n) == src[CHOOSE j \in 1..Len(new) : new[j] = n]
    IN [s EXCEPT
          !.kind = [n \in Nodes |-> IF IsNew(n) THEN s.kind[SrcOf(n)] ELSE s.kind[n]],
          !.name = [n \in Nodes |-> IF IsNew(n) THEN s.name[SrcOf(n)] ELSE s.name[n]],
          !.locked = [n \in Nodes |-> IF IsNew(n) THEN s.locked[SrcOf(n)] ELSE s.locked[n]],
          !.xform = [n \in Nodes |-> IF IsNew(n) THEN s.xform[SrcOf(n)] ELSE s.xform[n]],
          !.width = [n \in Nodes |-> IF IsNew(n) THEN s.width[SrcOf(n)] ELSE s.width[n]],
          !.color = [n \in Nodes |-> IF IsNew(n) THEN s.color[SrcOf(n)] ELSE s.color[n]],
          !.instanceHidden = [n \in Nodes |-> IF IsNew(n) THEN s.instanceHidden[SrcOf(n)]
                                              ELSE s.instanceHidden[n]],
          !.parent = [n \in Nodes |-> IF IsNew(n) /\ SrcOf(n) # obj
                                      THEN CloneOf(s, obj, s.parent[SrcOf(n)])
                                      ELSE s.parent[n]],
          !.children = [c \in Containers |->
                          IF c # Scene /\ IsNew(c)
                          THEN [k \in 1..Len(s.children[SrcOf(c)]) |->
                                   CloneOf(s, obj, s.children[SrcOf(c)][k])]
                          ELSE s.children[c]]]

\* context menu item Clone
ctxClone(s, obj) ==
    LET clone == FreeNodes(s)[1]
        s1 == Object3DClone(s, obj)
        s2 == [s1 EXCEPT !.xform[clone].position = [i \in 1..3 |-> @[i] + 2]]
    IN hideCtxMenu(ManagerExecute(s2, AddVoxelCommand(ParentOrScene(s2, obj), clone)))

\* context menu item Focus executing a Transform command that moves the node
\* to the look-at target
ctxFocus_MovesNode(s, obj) ==
    hideCtxMenu(ManagerExecute(s, TransformCommand(obj, GizmoStartRef,
                                   [s.xform[obj] EXCEPT !.position = s.controlsTarget])))

\* context menu item Focus: window.controls.target.copy(obj.position), if the
\* page has a camera controller
ctxFocus(s, obj) ==
    hideCtxMenu(IF s.env.controls THEN [s EXCEPT !.controlsTarget = s.xform[obj].position]
                ELSE s)

\* rounding down instead of to the nearest integer
MathRound_Floor(t) == t \div 10

\* updateGhostGeometry(): the ghost's box takes the side of the brush
updateGhostGeometry(s) == [s EXCEPT !.width[GhostCursor] = s.brushSize * 10]

\* Math.round of a number given in tenths (halves go up)
MathRound(t) == (t + 5) \div 10

\* targetPos of the hover computation, in tenths: the hit point moved by
\* normal * (size * 0.5), outwards for Build and inwards otherwise
TargetPos(toolId, point, normal, size) ==
    [i \in 1..3 |-> IF toolId = "build" THEN point[i] + normal[i] * size * 5
                                        ELSE point[i] - normal[i] * size * 5]

\* (sx, sy, sz)
Snap(toolId, point, normal, size) ==
    [i \in 1..3 |-> MathRound(TargetPos(toolId, point, normal, size)[i])]

\* the hover computation skipping a hit under a locked ancestor as well
mouseMove_ChainFilter(s, intersects, point, normal, instanceId) ==
    IF s.activeTool \in {"build", "break", "pipette"}
    THEN LET hit == FindFirst(intersects, LAMBDA o : o # GhostCursor /\ ~LockedChain(s, o))
             c == Snap(s.activeTool, point, normal, s.brushSize)
         IN IF hit # None
            THEN [s EXCEPT !.xform[GhostCursor].position = c,
                           !.ghostVisible = TRUE,
                           !.color[GhostCursor] =
                               IF s.activeTool = "break" THEN "ff0000" ELSE "00ff00",
                           !.pointer = [point |-> point, normal |-> normal,
                                        tool |-> s.activeTool, size |-> s.brushSize],
                           !.hoveredVoxel =
                               [x |-> c[1], y |-> c[2], z |-> c[3], hitObj |-> hit,
                                hitId |-> IF s.kind[hit] = "InstancedMesh"
                                          THEN instanceId ELSE NoId]]
            ELSE [s EXCEPT !.ghostVisible = FALSE, !.hoveredVoxel = NoHover]
    ELSE s

\* mousemove on the canvas; point, normal and instanceId are those of the
\* first hit the filter lets through
mouseMove(s, intersects, point, normal, instanceId) ==
    IF s.activeTool \in {"build", "break", "pipette"}
    THEN LET hit == FindFirst(intersects, LAMBDA o : o # GhostCursor /\ ~s.locked[o])
             c == Snap(s.activeTool, point, normal, s.brushSize)
         IN IF hit # None
            THEN [s EXCEPT !.xform[GhostCursor].position = c,
                           !.ghostVisible = TRUE,
                           !.color[GhostCursor] =
                               IF s.activeTool = "break" THEN "ff0000" ELSE "00ff00",
                           !.pointer = [point |-> point, normal |-> normal,
                                        tool |-> s.activeTool, size |-> s.brushSize],
                           !.hoveredVoxel =
                               [x |-> c[1], y |-> c[2], z |-> c[3], hitObj |-> hit,
                                hitId |-> IF s.kind[hit] = "InstancedMesh"
                                          THEN instanceId ELSE NoId]]
            ELSE [s EXCEPT !.ghostVisible = FALSE, !.hoveredVoxel = NoHover]
    ELSE s

\* the interval under which two presses count as a double click (ms)
DblClickMs == 300

\* mousedown on the canvas, primary button: double click detection
isDbl(s) == s.now - s.lastPipetteClick < DblClickMs
mouseDownStamp(s) == [s EXCEPT !.lastPipetteClick = s.now]

\* mousedown on the canvas, select branch
mouseDownSelect(s, intersects) ==
    selectObject(mouseDownStamp(s), FindFirst(intersects, LAMBDA o : ~LockedChain(s, o)))

\* the build branch making a unit cube whatever the brush size
mouseDownBuild_UnitCube(s) ==
    LET s0 == mouseDownStamp(s)
        h == s.hoveredVoxel
        voxel == FreeNodes(s)[1]
        s1 == [s0 EXCEPT !.kind[voxel] = "Mesh", !.name[voxel] = "Voxel",
                         !.width[voxel] = 10,
                         !.color[voxel] = s.brushColor,
                         !.xform[voxel] = [IdentityXform EXCEPT
                                              !.position = <<h.x, h.y, h.z>>]]
        found == GetObjectByName(s1, "UserLayer")
        userLayer == IF found # None THEN found ELSE FreeNodes(s1)[1]
        s2 == IF found # None THEN s1
              ELSE Object3DAdd([s1 EXCEPT !.kind[userLayer] = "Group",
                                          !.name[userLayer] = "UserLayer"],
                               Scene, userLayer)
    IN IF h = NoHover THEN s0
       ELSE ManagerExecute(s2, AddVoxelCommand(userLayer, voxel))

\* mousedown on the canvas, build branch
mouseDownBuild(s) ==
    LET s0 == mouseDownStamp(s)
        h == s.hoveredVoxel
        voxel == FreeNodes(s)[1]
        s1 == [s0 EXCEPT !.kind[voxel] = "Mesh", !.name[voxel] = "Voxel",
                         !.width[voxel] = s.brushSize * 10,
                         !.color[voxel] = s.brushColor,
                         !.xform[voxel] = [IdentityXform EXCEPT
                                              !.position = <<h.x, h.y, h.z>>]]
        found == GetObjectByName(s1, "UserLayer")
        userLayer == IF found # None THEN found ELSE FreeNodes(s1)[1]
        s2 == IF found # None THEN s1
              ELSE Object3DAdd([s1 EXCEPT !.kind[userLayer] = "Group",
                                          !.name[userLayer] = "UserLayer"],
                               Scene, userLayer)
    IN IF h = NoHover THEN s0
       ELSE ManagerExecute(s2, AddVoxelCommand(userLayer, voxel))

\* the break branch without its test of the lock flag
mouseDownBreak_IgnoresLock(s) ==
    LET s0 == mouseDownStamp(s)
        h == s.hoveredVoxel
        target == h.hitObj
    IN IF h = NoHover THEN s0
       ELSE IF s.kind[target] # "InstancedMesh"
       THEN ManagerExecute(s0, RemoveVoxelCommand(ParentOrScene(s, target), target))
       ELSE IF h.hitId # NoId
       THEN [s0 EXCEPT !.instanceHidden[target] = @ \cup {h.hitId}]
       ELSE s0

\* the break branch removing an InstancedMesh like any other mesh
mouseDownBreak_NoInstancedTest(s) ==
    LET s0 == mouseDownStamp(s)
        h == s.hoveredVoxel
        target == h.hitObj
    IN IF h = NoHover THEN s0
       ELSE IF s.locked[target] THEN s0
       ELSE IF TRUE
       THEN ManagerExecute(s0, RemoveVoxelCommand(ParentOrScene(s, target), target))
       ELSE IF h.hitId # NoId
       THEN [s0 EXCEPT !.instanceHidden[target] = @ \cup {h.hitId}]
       ELSE s0

\* mousedown on the canvas, break branch
mouseDownBreak(s) ==
    LET s0 == mouseDownStamp(s)
        h == s.hoveredVoxel
        target == h.hitObj
    IN IF h = NoHover THEN s0
       ELSE IF s.locked[target] THEN s0
       ELSE IF s.kind[target] # "InstancedMesh"
       THEN ManagerExecute(s0, RemoveVoxelCommand(ParentOrScene(s, target), target))
       ELSE IF h.hitId # NoId
       THEN [s0 EXCEPT !.instanceHidden[target] = @ \cup {h.hitId}]
       ELSE s0

\* the pipette branch taking any rounded side as the brush size
mouseDownPipette_NoRange(s) ==
    LET s0 == mouseDownStamp(s)
        h == s.hoveredVoxel
        target == h.hitObj
        s1 == [s0 EXCEPT !.brushColor = s.color[target]]
        rounded == MathRound(s.xform[target].scale * s.width[target])
    IN IF h = NoHover THEN s0
       ELSE IF isDbl(s) /\ s.kind[target] # "InstancedMesh"
       THEN updateGhostGeometry([s1 EXCEPT !.brushSize = rounded])
       ELSE s1

\* the pipette branch going over to the Build tool after a single press
mouseDownPipette_SwitchesToBuild(s) ==
    LET s0 == mouseDownStamp(s)
        h == s.hoveredVoxel
        target == h.hitObj
        s1 == [s0 EXCEPT !.brushColor = s.color[target]]
        rounded == MathRound(s.xform[target].scale * s.width[target])
    IN IF h = NoHover THEN s0
       ELSE IF isDbl(s) /\ s.kind[target] # "InstancedMesh"
                 /\ rounded >= 1 /\ rounded <= 5
       THEN updateGhostGeometry([s1 EXCEPT !.brushSize = rounded])
       ELSE IF ~isDbl(s) THEN setTool(s1, "build")
       ELSE s1

\* mousedown on the canvas, pipette branch (every mesh of this model has a
\* BoxGeometry)
mouseDownPipette(s) ==
    LET s0 == mouseDownStamp(s)
        h == s.hoveredVoxel
        target == h.hitObj
        s1 == [s0 EXCEPT !.brushColor = s.color[target]]
        rounded == MathRound(s.xform[target].scale * s.width[target])
    IN IF h = NoHover THEN s0
       ELSE IF isDbl(s) /\ s.kind[target] # "InstancedMesh"
                 /\ rounded >= 1 /\ rounded <= 5
       THEN updateGhostGeometry([s1 EXCEPT !.brushSize = rounded])
       ELSE s1

\* sizeSlider.min, sizeSlider.max
MinSize == 1
MaxSize == 5

\* sizeSlider.oninput; the range input holds an integer from min to max
sizeInput(s, v) == updateGhostGeometry([s EXCEPT !.brushSize = v])

\* colorInput.oninput
colorInput(s, c) == [s EXCEPT !.brushColor = c]

\* 'dragging-changed' with event.value = true
dragStart(s) ==
    LET s1 == [s EXCEPT !.dragging = TRUE, !.gizmoAxis = TRUE]
    IN IF s1.gizmoObject # None
       THEN [s1 EXCEPT !.gizmoStart = s1.xform[s1.gizmoObject]]
       ELSE s1

\* TransformControls moving its object while the pointer drags a handle
dragMove(s, v) ==
    IF s.gizmoMode = "translate" THEN [s EXCEPT !.xform[s.gizmoObject].position[1] = v]
    ELSE IF s.gizmoMode = "rotate" THEN [s EXCEPT !.xform[s.gizmoObject].quaternion = v]
    ELSE [s EXCEPT !.xform[s.gizmoObject].scale = v]

\* 'dragging-changed' with event.value = false
dragEnd(s) ==
    LET s1 == [s EXCEPT !.dragging = FALSE, !.gizmoAxis = FALSE]
    IN IF s1.gizmoObject # None
       THEN ManagerExecute(s1, TransformCommand(s1.gizmoObject, GizmoStartRef,
                                                s1.xform[s1.gizmoObject]))
       ELSE s1

----------------------------------------------------------------------------
(* Initial state: the editor right after the script has run on a scene with *)
(* a top-level mesh A and a top-level group G holding a mesh B              *)

\* material colours: the ghost cursor is green, the scene's meshes are not
\* white
Colors == {"ffffff", "00ff00", "336699", "cc0000"}
InitColor == [n \in Nodes |-> IF n = "A" THEN "336699"
                              ELSE IF n = "B" THEN "cc0000"
                              ELSE IF n = GhostCursor THEN "00ff00" ELSE "ffffff"]
\* Date.now() when the script starts: far more than DblClickMs after 0
StartMs == 1000

\* the globals the page may hold when the script starts (window.THREE,
\* window.scene, window.camera, window.renderer, window.controls), whether
\* the import of TransformControls succeeds, and what the script did: the
\* editor installed, the alerts shown
Pages == [three : BOOLEAN, scene : BOOLEAN, camera : BOOLEAN, renderer : BOOLEAN,
          controls : BOOLEAN, addon : BOOLEAN, installed : {FALSE}, alerts : {0}]
\* a page with everything on it
FullPage == [three |-> TRUE, scene |-> TRUE, camera |-> TRUE, renderer |-> TRUE,
             controls |-> TRUE, addon |-> TRUE, installed |-> FALSE, alerts |-> 0]

\* no hover computation yet
NoPointer == [point |-> <<0, 0, 0>>, normal |-> <<0, 0, 0>>, tool |-> None, size |-> 0]

----------------------------------------------------------------------------
(* The application shell (App component): the React state it keeps, as one  *)
(* record, and its handlers.  A handler reads the state of the render that  *)
(* made it; what the part of a handler after an await reads is carried by   *)
(* the request it waits for.  Of the three prompts only the description is  *)
(* kept, the other two follow the same path.                                *)

NumExamples == 2
MaxImages == 2
MaxPending == 2
MaxShellSteps == 6

ExampleIds == <<"example1", "example2", "example3">>
Examples == {ExampleIds[i] : i \in 1..NumExamples}

\* a scene document: the scene it draws and whether it holds the editor
\* script
Document(scene) == [scene |-> scene, editor |-> FALSE]
\* voxelCode = null, userContent = null
NoCode == Document(None)
NoContent == [set |-> FALSE, images |-> <<>>, voxel |-> NoCode, desc |-> ""]
UserContent(images, code, desc) ==
    [set |-> TRUE, images |-> images, voxel |-> code, desc |-> desc]

\* injectVoxelEditor(html, t): the document, now holding the editor script
\* between the markers getExportCode strips
injectVoxelEditor(code) == [code EXCEPT !.editor = TRUE]

\* the useState initial values
AppInit ==
    [descPrompt |-> "", inputImages |-> <<>>, displayedImageIndex |-> 0,
     voxelCode |-> NoCode, userContent |-> NoContent, selectedTile |-> None,
     showGenerator |-> FALSE, showGenConfirm |-> FALSE, status |-> "idle",
     viewMode |-> "image", isViewerVisible |-> TRUE, isEditorActive |-> FALSE,
     pending |-> {}, steps |-> 0]

\* const isLoading = status !== 'idle' && status !== 'error'
isLoading(a) == a.status \notin {"idle", "error"}

\* an asynchronous operation under way, with the values its continuation
\* reads from the closure that started it
Request(a, k, tile, code, desc, i) ==
    [kind |-> k, id |-> a.steps, tile |-> tile, voxel |-> code,
     desc |-> desc, index |-> i]

handleError(a) == [a EXCEPT !.status = "error"]

onGenerateImageClick(a) ==
    IF a.descPrompt = "" THEN a ELSE [a EXCEPT !.showGenConfirm = TRUE]

\* confirmImageGeneration up to its await
confirmImageGeneration(a) ==
    LET a1 == [a EXCEPT !.showGenConfirm = FALSE]
    IN IF a.descPrompt = "" THEN a1
       ELSE [a1 EXCEPT !.status = "generating_image", !.inputImages = <<>>,
                       !.voxelCode = NoCode, !.viewMode = "image",
                       !.isEditorActive = FALSE, !.isViewerVisible = TRUE,
                       !.pending = @ \cup {Request(a, "image", None, NoCode, a.descPrompt, None)}]

\* confirmImageGeneration after generateImage settled
imageSettled(a, r, ok) ==
    LET a1 == [a EXCEPT !.pending = @ \ {r}]
    IN IF ok
       THEN [a1 EXCEPT !.userContent = UserContent(<<"generated">>, NoCode, r.desc),
                       !.inputImages = <<"generated">>,
                       !.displayedImageIndex = 0, !.voxelCode = NoCode,
                       !.selectedTile = "user", !.status = "idle",
                       !.showGenerator = FALSE]
       ELSE handleError(a1)

\* processFile up to reader.readAsDataURL; code and desc are voxelCode and
\* descPrompt of the render whose processFile this is
processFile(a, valid, code, desc) ==
    IF ~valid THEN handleError(a)
    ELSE [a EXCEPT !.pending = @ \cup {Request(a, "file", None, code, desc, None)}]

\* reader.onload / reader.onerror of processFile
fileRead(a, r, ok) ==
    LET a1 == [a EXCEPT !.pending = @ \ {r}]
        updated == Append(a.inputImages, "file")
    IN IF ok
       THEN [a1 EXCEPT !.inputImages = updated,
                       !.userContent = UserContent(updated, r.voxel, r.desc),
                       !.displayedImageIndex = Len(updated) - 1,
                       !.viewMode = "image", !.status = "idle",
                       !.selectedTile = "user", !.isEditorActive = FALSE,
                       !.showGenerator = TRUE, !.isViewerVisible = TRUE]
       ELSE handleError(a1)

clearImages(a) ==
    [a EXCEPT !.inputImages = <<>>, !.displayedImageIndex = 0,
              !.userContent = IF @.set THEN [@ EXCEPT !.images = <<>>] ELSE @]

\* removeImage(index), index counted from 0
removeImage(a, idx) ==
    LET newImages == [i \in 1..Len(a.inputImages) - 1 |->
                         IF i <= idx THEN a.inputImages[i] ELSE a.inputImages[i + 1]]
        top == IF Len(newImages) - 1 > 0 THEN Len(newImages) - 1 ELSE 0
    IN [a EXCEPT !.inputImages = newImages,
                 !.displayedImageIndex = IF @ >= Len(newImages) THEN top ELSE @,
                 !.userContent = IF @.set THEN [@ EXCEPT !.images = newImages]
                                 ELSE @]

\* handleExampleClick up to its first await
handleExampleClick(a, i) ==
    IF isLoading(a) THEN a
    ELSE [a EXCEPT !.selectedTile = i, !.showGenerator = FALSE,
                   !.isViewerVisible = TRUE, !.isEditorActive = FALSE,
                   !.pending = @ \cup {Request(a, "example", None, NoCode, "", i)}]

\* handleExampleClick after its fetches settled: the image could not be
\* loaded, the scene file was missing, or both arrived
ExampleOutcomes == {"ok", "noHtml", "noImage"}
exampleSettled(a, r, outcome) ==
    LET a1 == [a EXCEPT !.pending = @ \ {r}]
    IN IF outcome = "noImage" THEN handleError(a1)
       ELSE [a1 EXCEPT !.inputImages = <<r.index>>,
                       !.displayedImageIndex = 0,
                       !.voxelCode = IF outcome = "ok"
                                     THEN Document(r.index)
                                     ELSE Document("placeholder"),
                       !.viewMode = "voxel", !.status = "idle"]

handleUserTileClick(a) ==
    IF isLoading(a) THEN a
    ELSE IF a.selectedTile = "user"
    THEN IF ~a.showGenerator
         THEN [a EXCEPT !.showGenerator = TRUE, !.isViewerVisible = FALSE]
         ELSE [a EXCEPT !.showGenerator = FALSE, !.isViewerVisible = TRUE,
                        !.selectedTile = IF ~a.userContent.set THEN None ELSE @]
    ELSE LET a1 == [a EXCEPT !.selectedTile = "user", !.showGenerator = TRUE,
                             !.isViewerVisible = FALSE, !.isEditorActive = FALSE]
         IN IF a.userContent.set
            THEN [a1 EXCEPT !.inputImages = a.userContent.images,
                            !.displayedImageIndex = 0,
                            !.voxelCode = a.userContent.voxel,
                            !.descPrompt = a.userContent.desc,
                            !.viewMode = IF a.userContent.voxel # NoCode
                                         THEN "voxel" ELSE "image"]
            ELSE [a1 EXCEPT !.inputImages = <<>>, !.voxelCode = NoCode,
                            !.descPrompt = "", !.viewMode = "image"]

\* handleVoxelize up to its await
handleVoxelize(a) ==
    LET a1 == [a EXCEPT !.showGenConfirm = FALSE]
    IN IF a.inputImages = <<>> /\ a.voxelCode = NoCode /\ a.descPrompt = "" THEN a1
       ELSE [a1 EXCEPT !.status = "generating_voxels", !.isViewerVisible = TRUE,
                       !.isEditorActive = FALSE,
                       !.pending = @ \cup {Request(a, "voxels", a.selectedTile,
                                                  a.voxelCode, a.descPrompt, None)}]

\* handleVoxelize after generateVoxelScene settled
voxelsSettled(a, r, ok) ==
    LET a1 == [a EXCEPT !.pending = @ \ {r}]
        code == Document("generated")
    IN IF ok
       THEN [a1 EXCEPT !.voxelCode = code,
                       !.userContent = IF r.tile = "user" /\ @.set
                                       THEN [@ EXCEPT !.voxel = code, !.desc = r.desc]
                                       ELSE @,
                       !.viewMode = "voxel", !.status = "idle",
                       !.showGenerator = FALSE]
       ELSE handleError(a1)

handleToggleEditor(a) ==
    IF a.voxelCode = NoCode \/ a.viewMode # "voxel" THEN a
    ELSE IF ~a.isEditorActive
    THEN [a EXCEPT !.voxelCode = injectVoxelEditor(@), !.isEditorActive = TRUE]
    ELSE a

\* the toolbar over the viewer is rendered
ToolbarShown(a) ==
    /\ a.isViewerVisible /\ ~isLoading(a)
    /\ (a.inputImages # <<>> \/ a.voxelCode # NoCode)

----------------------------------------------------------------------------
\* the editor on a scene whose nodes have the given kinds and box sides
InitWith(kinds, widths, page) ==
    /\ activeTool = "select"
    /\ selectedObject = None
    /\ hoveredVoxel = NoHover
    /\ parent = InitParent
    /\ children = InitChildren
    /\ locked = [n \in Nodes |-> FALSE]
    /\ xform = [n \in Nodes |-> IdentityXform]
    /\ kind = kinds
    /\ name = [n \in Nodes |-> ""]
    /\ history = <<>>
    /\ index = -1
    /\ gizmoStart = [position |-> <<0, 0, 0>>, quaternion |-> 0, scale |-> 0]
    /\ gizmoObject = None
    /\ gizmoMode = "translate"
    /\ gizmoAxis = FALSE
    /\ dragging = FALSE
    /\ selectionBoxVisible = FALSE
    /\ ghostVisible = FALSE
    /\ ctxMenu = HiddenMenu
    /\ tree = LET rows == TreeRows([children |-> InitChildren, kind |-> kinds])
              IN [i \in 1..Len(rows) |->
                     [obj |-> rows[i], selected |-> FALSE, locked |-> FALSE]]
    /\ undoDisabled = TRUE
    /\ redoDisabled = TRUE
    /\ brushSize = 1
    /\ brushColor = "ffffff"
    /\ lastPipetteClick = 0
    /\ now = StartMs
    /\ width = widths
    /\ color = InitColor
    /\ instanceHidden = [n \in Nodes |-> {}]
    /\ isPaused = FALSE
    /\ controlsTarget = <<0, 0, 0>>
    /\ env = [page EXCEPT !.installed = TRUE]
    /\ app = AppInit
    /\ pointer = NoPointer
    /\ linear = TRUE
    /\ events = 0

Init == InitWith(InitKind, [n \in Nodes |-> 10], FullPage)

\* the dependency check that forgets the camera
depsOK_NoCamera(page) == page.three /\ page.scene /\ page.renderer

\* 1. Dependencies Check
depsOK(page) == page.three /\ page.scene /\ page.camera /\ page.renderer

\* the page's scene before any script touched it (no node at all if the page
\* has no scene)
PageParent(page) == [n \in Nodes |-> IF page.scene /\ n # GhostCursor
                                     THEN InitParent[n] ELSE None]
PageChildren(page) == [c \in Containers |->
    IF page.scene THEN SelectSeq(InitChildren[c], LAMBDA n : n # GhostCursor)
    ELSE <<>>]
PageKind(page) == [n \in Nodes |-> IF page.scene /\ n # GhostCursor
                                   THEN InitKind[n] ELSE "Free"]

\* the script returned after its alert: no panel, no listener, no widget and
\* no CommandManager were made, and the scene is the page's
Untouched(page) ==
    /\ activeTool = "select"
    /\ selectedObject = None
    /\ hoveredVoxel = NoHover
    /\ parent = PageParent(page)
    /\ children = PageChildren(page)
    /\ locked = [n \in Nodes |-> FALSE]
    /\ xform = [n \in Nodes |-> IdentityXform]
    /\ kind = PageKind(page)
    /\ name = [n \in Nodes |-> ""]
    /\ history = <<>>
    /\ index = -1
    /\ gizmoStart = [position |-> <<0, 0, 0>>, quaternion |-> 0, scale |-> 0]
    /\ gizmoObject = None
    /\ gizmoMode = "translate"
    /\ gizmoAxis = FALSE
    /\ dragging = FALSE
    /\ selectionBoxVisible = FALSE
    /\ ghostVisible = FALSE
    /\ ctxMenu = HiddenMenu
    /\ tree = <<>>
    /\ undoDisabled = TRUE
    /\ redoDisabled = TRUE
    /\ brushSize = 1
    /\ brushColor = "ffffff"
    /\ lastPipetteClick = 0
    /\ now = StartMs
    /\ width = [n \in Nodes |-> 10]
    /\ color = InitColor
    /\ instanceHidden = [n \in Nodes |-> {}]
    /\ isPaused = FALSE
    /\ controlsTarget = <<0, 0, 0>>
    /\ env = [page EXCEPT !.alerts = 1]
    /\ app = AppInit
    /\ pointer = NoPointer
    /\ linear = TRUE
    /\ events = 0

\* the script run on any page: the dependency check, then the import of
\* TransformControls, then the editor
InitBoot == \E page \in Pages :
    IF depsOK(page) /\ page.addon
    THEN InitWith(InitKind, [n \in Nodes |-> 10], page)
    ELSE Untouched(page)

----------------------------------------------------------------------------
(* Actions: one per event handler.  While a gizmo drag is in progress the   *)
(* pointer is held down on the canvas, so only key handlers and pointer     *)
(* moves can run until the drag ends.                                       *)

\* a key pressed that is not Delete, Backspace or Ctrl+Z
KeyTool == \E key \in Keys : \E r \in {keyDownTool(St, key)} : Event(r)

\* tool button; the click then reaches the window listener
BtnTool == \E toolId \in Tools :
    /\ ~dragging
    /\ Event(hideCtxMenu(setTool(St, toolId)))

\* Ctrl/Cmd+Z
KeyUndo == \E r \in {ManagerUndo(St)} :
    Event([r EXCEPT !.linear = @ /\ r.index = index])

\* undo button
BtnUndo ==
    /\ ~dragging
    /\ LET r == hideCtxMenu(ManagerUndo(St))
       IN Event([r EXCEPT !.linear = @ /\ r.index = index])

\* Ctrl/Cmd+Shift+Z
KeyRedo ==
    /\ dragging => RoomInLog(St)
    /\ LET r == ManagerRedo(St)
       IN Event([r EXCEPT !.linear = @ /\ r.index = index])

\* redo button
BtnRedo ==
    /\ ~dragging
    /\ LET r == hideCtxMenu(ManagerRedo(St))
       IN Event([r EXCEPT !.linear = @ /\ r.index = index])

\* Delete / Backspace
KeyDelete ==
    /\ RoomInLog(St)
    /\ Event(keyDelete(St))

\* primary button pressed on a tree row (the press rebuilds the rows, so
\* whether a click follows is left to WindowClick)
TreeRowSelect == \E i \in 1..Len(tree) :
    /\ ~dragging
    /\ Event(selectObject(St, tree[i].obj))

\* secondary button pressed on a tree row
TreeRowContext == \E i \in 1..Len(tree) :
    /\ ~dragging
    /\ Event(showCtxMenu(St, tree[i].obj))

\* click on the lock button of a tree row (the handler stops propagation,
\* so the window listener does not run)
LockBtnClick == \E i \in 1..Len(tree) :
    /\ ~dragging
    /\ Event(lockBtnClick(St, tree[i].obj))

\* click on the enabled Delete item of the context menu
CtxDelete ==
    /\ ~dragging
    /\ ctxMenu.shown /\ ~ctxMenu.isLocked
    /\ RoomInLog(St)
    /\ Event(ctxDelete(St, ctxMenu.obj))

\* click on the enabled Clone item of the context menu
CtxClone ==
    /\ ~dragging
    /\ ctxMenu.shown /\ ~ctxMenu.isLocked
    /\ RoomInLog(St)
    /\ Len(FreeNodes(St)) >= Len(CloneSources(St, ctxMenu.obj))
    /\ Event(ctxClone(St, ctxMenu.obj))

\* click on the Focus item of the context menu
CtxFocus ==
    /\ ~dragging
    /\ ctxMenu.shown
    /\ Event(ctxFocus(St, ctxMenu.obj))

\* click anywhere else
WindowClick ==
    /\ ~dragging
    /\ ctxMenu.shown
    /\ Event(hideCtxMenu(St))

\* pointer moved over the canvas
MouseMove == \E intersects \in Intersections(St), coord \in 0..MaxCoord,
                instanceId \in 0..MaxInstance :
    /\ activeTool \in {"build", "break", "pipette"}
    /\ Event(mouseMove(St, intersects, <<10 * coord, 0, 0>>, <<0, 1, 0>>, instanceId))

\* primary button pressed on the canvas, Select tool; the click that the
\* release completes reaches the window listener (no key handler reads or
\* writes the menu in between)
MouseDownSelect == \E intersects \in Intersections(St) :
    /\ ~dragging
    /\ activeTool = "select"
    /\ Event(hideCtxMenu(mouseDownSelect(St, intersects)))

\* primary button pressed on the canvas, Build tool
MouseDownBuild ==
    /\ ~dragging
    /\ activeTool = "build"
    /\ hoveredVoxel # NoHover =>
          /\ RoomInLog(St)
          /\ Len(FreeNodes(St)) >= (IF GetObjectByName(St, "UserLayer") = None THEN 2 ELSE 1)
    /\ Event(hideCtxMenu(mouseDownBuild(St)))

\* primary button pressed on the canvas, Break tool
MouseDownBreak ==
    /\ ~dragging
    /\ activeTool = "break"
    /\ RoomInLog(St)
    /\ Event(hideCtxMenu(mouseDownBreak(St)))

\* primary button pressed on the canvas, Pipette tool
MouseDownPipette ==
    /\ ~dragging
    /\ activeTool = "pipette"
    /\ Event(hideCtxMenu(mouseDownPipette(St)))

\* primary button pressed on a handle of the attached gizmo
DragStart ==
    /\ ~dragging
    /\ gizmoObject # None
    /\ RoomInLog(St)
    /\ Event(dragStart(mouseDownStamp(St)))

\* pointer moved while a handle is held
DragMove == \E v \in 0..MaxCoord :
    /\ dragging /\ gizmoAxis /\ gizmoObject # None
    /\ Event(dragMove(St, v))

\* primary button released, and the click it completes; without an attached
\* object no command is made and the drag is abandoned
DragEnd ==
    /\ dragging
    /\ LET r == hideCtxMenu(dragEnd(St))
       IN Event([r EXCEPT !.linear = @ /\ gizmoObject # None])

Next ==
    \/ KeyTool \/ BtnTool
    \/ KeyUndo \/ BtnUndo \/ KeyRedo \/ BtnRedo
    \/ KeyDelete
    \/ TreeRowSelect \/ TreeRowContext \/ LockBtnClick
    \/ CtxDelete \/ CtxClone \/ CtxFocus \/ WindowClick
    \/ MouseMove \/ MouseDownSelect \/ MouseDownBuild \/ MouseDownBreak
    \/ MouseDownPipette
    \/ DragStart \/ DragMove \/ DragEnd

Spec == Init /\ [][Next]_vars

----------------------------------------------------------------------------
(* Pause: the editor used while the scene's clock is stopped and while it   *)
(* runs.                                                                    *)

\* pause button; the click then reaches the window listener
TogglePause ==
    /\ ~dragging
    /\ Event(hideCtxMenu(togglePause(St)))

NextPause ==
    \/ TogglePause \/ KeyTool \/ KeyUndo \/ KeyRedo \/ KeyDelete
    \/ TreeRowContext \/ LockBtnClick \/ CtxDelete \/ CtxClone
    \/ MouseMove \/ MouseDownSelect \/ MouseDownBuild \/ MouseDownBreak
    \/ MouseDownPipette

SpecPause == Init /\ [][NextPause]_vars

----------------------------------------------------------------------------
(* Start-up: the script run on pages that lack some of what it needs, and  *)
(* the panel used on those where it started.                                *)

NextBoot ==
    \/ KeyTool \/ TreeRowSelect \/ TreeRowContext \/ LockBtnClick
    \/ CtxFocus \/ WindowClick

SpecBoot == InitBoot /\ [][NextBoot]_vars

----------------------------------------------------------------------------
(* The brush: the voxel tools on a scene that holds an InstancedMesh and a  *)
(* box of any side, with the brush controls, hits anywhere on a face and    *)
(* time passing between presses.                                            *)

\* box sides (tenths of a unit) the scene's leaf B may have
BoxWidths == {4, 40, 45, 70}

\* ray hits (tenths of a unit) and the face normals of axis-aligned boxes
HitPoints == {<<21, 4, 29>>, <<-25, 5, 0>>, <<0, -5, 14>>}
FaceNormals == {<<1, 0, 0>>, <<-1, 0, 0>>, <<0, 1, 0>>, <<0, -1, 0>>,
                <<0, 0, 1>>, <<0, 0, -1>>}

\* time steps (ms) between two events
TickSteps == {1, DblClickMs - 1}

InitBrush == \E w \in BoxWidths :
    InitWith([InitKind EXCEPT !["A"] = "InstancedMesh"],
             [n \in Nodes |-> IF n = "B" THEN w ELSE 10], FullPage)

\* the brush size slider moved
SizeInput == \E v \in MinSize..MaxSize :
    /\ ~dragging
    /\ Event(sizeInput(St, v))

\* a colour chosen in the colour input
ColorInput == \E c \in Colors :
    /\ ~dragging
    /\ Event(colorInput(St, c))

\* time passes; past DblClickMs after the last press more time changes nothing
Tick == \E d \in TickSteps :
    /\ now - lastPipetteClick < DblClickMs
    /\ Event([St EXCEPT !.now = @ + d])

\* pointer moved over the canvas, the ray meeting a face anywhere
HoverMove == \E intersects \in NodeIntersections(St), point \in HitPoints,
                normal \in FaceNormals, instanceId \in 0..MaxInstance :
    /\ activeTool \in {"build", "break", "pipette"}
    /\ Event(mouseMove(St, intersects, point, normal, instanceId))

NextBrush ==
    \/ KeyTool \/ SizeInput \/ ColorInput \/ Tick \/ MouseMove
    \/ MouseDownBuild \/ MouseDownBreak \/ MouseDownPipette
    \/ KeyUndo \/ KeyRedo

SpecBrush == InitBrush /\ [][NextBrush]_vars

\* the editor on scenes whose first child is a mesh, a light or a camera
\* helper
TopLevelTypes == {"Mesh", "DirectionalLight", "CameraHelper"}
InitTree == \E type \in TopLevelTypes :
    InitWith([InitKind EXCEPT !["A"] = type], [n \in Nodes |-> 10], FullPage)

SpecTree == InitTree /\ [][Next]_vars

\* the hover computation alone, under every tool and brush size
NextSnap == KeyTool \/ SizeInput \/ HoverMove

SpecSnap == Init /\ [][NextSnap]_vars

----------------------------------------------------------------------------
(* The command history driven by whole user gestures.  A gesture is the     *)
(* sequence of events by which the user produces one command (pick a tool,  *)
(* point, press), run to its end; SpecHistory explores the log and the      *)
(* graph more deeply than the single events of Spec do.                     *)

\* Select tool, then press on the canvas
picked(s, intersects) == mouseDownSelect(setTool(s, "select"), intersects)

\* select on the canvas, take a gizmo tool, drag a handle and release
DragPicked == \E intersects \in NodeIntersections(St), toolId \in GizmoTools, v \in 0..MaxCoord :
    LET s1 == setTool(picked(St, intersects), toolId)
    IN /\ s1.gizmoObject # None
       /\ RoomInLog(St)
       /\ Gesture(dragEnd(dragMove(dragStart(s1), v)))

\* select a tree row, take a gizmo tool, drag a handle and release
DragRow == \E i \in 1..Len(tree), toolId \in GizmoTools, v \in 0..MaxCoord :
    LET s1 == setTool(selectObject(St, tree[i].obj), toolId)
    IN /\ s1.gizmoObject # None
       /\ RoomInLog(St)
       /\ Gesture(dragEnd(dragMove(dragStart(s1), v)))

\* Build tool, hover, press
BuildGesture == \E intersects \in NodeIntersections(St), coord \in 0..MaxCoord :
    LET s1 == mouseMove(setTool(St, "build"), intersects, <<10 * coord, 0, 0>>, <<0, 1, 0>>, None)
    IN /\ s1.hoveredVoxel # NoHover
       /\ RoomInLog(St)
       /\ Len(FreeNodes(St)) >= (IF GetObjectByName(St, "UserLayer") = None THEN 2 ELSE 1)
       /\ Gesture(mouseDownBuild(s1))

\* Break tool, hover, press
BreakGesture == \E intersects \in NodeIntersections(St), coord \in 0..MaxCoord :
    LET s1 == mouseMove(setTool(St, "break"), intersects, <<10 * coord, 0, 0>>, <<0, 1, 0>>, None)
    IN /\ s1.hoveredVoxel # NoHover
       /\ RoomInLog(St)
       /\ Gesture(mouseDownBreak(s1))

\* press again without moving the pointer
BreakAgain ==
    /\ activeTool = "break" /\ hoveredVoxel # NoHover
    /\ RoomInLog(St)
    /\ Gesture(mouseDownBreak(St))

\* select a tree row, press Delete
DeleteRow == \E i \in 1..Len(tree) :
    /\ RoomInLog(St)
    /\ Gesture(keyDelete(selectObject(St, tree[i].obj)))

\* select on the canvas, press Delete
DeletePicked == \E intersects \in NodeIntersections(St) :
    /\ RoomInLog(St)
    /\ picked(St, intersects).selectedObject # None
    /\ Gesture(keyDelete(picked(St, intersects)))

\* open the context menu of a tree row, choose Clone
CloneRow == \E i \in 1..Len(tree) :
    LET s1 == showCtxMenu(St, tree[i].obj)
    IN /\ RoomInLog(St)
       /\ ~s1.ctxMenu.isLocked
       /\ Len(FreeNodes(St)) >= Len(CloneSources(St, tree[i].obj))
       /\ Gesture(ctxClone(s1, tree[i].obj))

\* Ctrl/Cmd+Z with something to undo
UndoGesture ==
    /\ index >= 0
    /\ Gesture([ManagerUndo(St) EXCEPT !.linear = FALSE])

\* Ctrl/Cmd+Shift+Z with something to redo
RedoGesture ==
    /\ index < Len(history) - 1
    /\ Gesture([ManagerRedo(St) EXCEPT !.linear = FALSE])

NextHistory ==
    \/ DragPicked \/ DragRow
    \/ BuildGesture \/ BreakGesture \/ BreakAgain
    \/ DeleteRow \/ DeletePicked \/ CloneRow
    \/ UndoGesture \/ RedoGesture

SpecHistory == Init /\ [][NextHistory]_vars

----------------------------------------------------------------------------
TypeOK ==
    /\ activeTool \in Tools
    /\ selectedObject \in Nodes \cup {None}
    /\ index \in -1..MaxHistory
    /\ Len(history) <= MaxHistory
    /\ \A n \in Nodes : parent[n] \in Containers \cup {None}

----------------------------------------------------------------------------
(* Properties of the command history (SpecHistory) *)

RECURSIVE UndoTimes(_, _)
\* undo() called n times
UndoTimes(s, n) == IF n = 0 THEN s ELSE UndoTimes(ManagerUndo(s), n - 1)

RECURSIVE RedoTimes(_, _)
\* redo() called n times
RedoTimes(s, n) == IF n = 0 THEN s ELSE RedoTimes(ManagerRedo(s), n - 1)

\* hierarchy (the parent reference of every node), node transforms and lock
\* flags; the order of the entries of a children array is not part of it
GraphOf(s) == [parent |-> s.parent, xform |-> s.xform, locked |-> s.locked]

UndoRestoresInitialGraph ==
    (linear /\ ~dragging) =>
        LET u == UndoTimes(St, Len(history))
        IN /\ \A n \in InitNodes : u.parent[n] = InitParent[n] /\ u.xform[n] = IdentityXform
           /\ \A n \in NewNodes : u.parent[n] = None

\* the node was created, is out of the graph and no command of the log
\* refers to it
Forgotten(n) ==
    /\ kind[n] # "Free" /\ parent[n] = None
    /\ \A i \in 1..Len(history) : history[i].voxel # n

\* C3: a step that changes the log is an execute: it keeps the entries up to
\* the cursor, drops every entry past it and appends one command, which the
\* cursor then points at; with the cursor on the last entry redo() changes
\* nothing, and only a step back of the cursor over an unchanged log (an
\* undo) makes a redo possible again.
NoBranchingRedo ==
    [][ /\ history' # history =>
            /\ Len(history') = index + 2
            /\ SubSeq(history', 1, index + 1) = SubSeq(history, 1, index + 1)
            /\ index' = index + 1
        /\ index' = Len(history') - 1 => ManagerRedo(St)' = St'
        /\ (index = Len(history) - 1 /\ index' < Len(history') - 1) =>
            (history' = history /\ index' = index - 1)
      ]_vars

\* a clone whose AddVoxelCommand was undone and then pruned by the execute
\* of a later command, now the last of the log
NoBranchingRedoWitness ==
    /\ \E n \in NewNodes : Forgotten(n)
    /\ index = Len(history) - 1 /\ index >= 0
    /\ redoDisabled

\* C4: the cursor lies between -1 and length-1.
CursorInBounds == -1 <= index /\ index <= Len(history) - 1

\* both ends met: everything undone, and everything of a log of two applied
CursorLowWitness == index = -1 /\ Len(history) = 2 /\ ~linear

----------------------------------------------------------------------------
(* Properties of the editor (Spec) *)

\* C5: the selection is none or a node of the scene graph.
SelectionInGraph == selectedObject = None \/ InGraph(St, selectedObject)

\* C6: no step detaches a locked node from its parent or changes the
\* transform of a locked node.
LockedUntouched ==
    [][\A n \in Nodes : locked[n] => (parent'[n] = parent[n] /\ xform'[n] = xform[n])]_vars

\* C7: Delete or Clone of the context menu on a node that is locked at that
\* moment, and the Delete key with a locked selection, leave the log, the
\* cursor and the graph unchanged.
LockedActionIsNoOp ==
    [][ (\/ (CtxDelete \/ CtxClone) /\ locked[ctxMenu.obj]
         \/ KeyDelete /\ selectedObject # None /\ locked[selectedObject])
        => (history' = history /\ index' = index /\ GraphOf(St)' = GraphOf(St)) ]_vars

\* C8: a step that applies a RemoveVoxelCommand to the selected node leaves
\* no selection, the selection box hidden and the gizmo detached.
DeleteClearsSelection ==
    [][ (/\ index' = index + 1
         /\ history'[index' + 1].type = "Remove"
         /\ history'[index' + 1].voxel = selectedObject
         /\ InGraph(St, selectedObject))
        => (selectedObject' = None /\ ~selectionBoxVisible' /\ gizmoObject' = None) ]_vars

\* the selected node has just been deleted under a gizmo tool
DeleteClearsSelectionWitness ==
    /\ index >= 0 /\ history[index + 1].type = "Remove"
    /\ parent[history[index + 1].voxel] = None
    /\ tree # <<>> /\ \A i \in 1..Len(tree) : ~tree[i].selected
    /\ activeTool \in GizmoTools
    /\ selectedObject = None /\ ~selectionBoxVisible /\ gizmoObject = None

\* C9: locking the selected node that carries the gizmo detaches the gizmo
\* and keeps the selection; activating a gizmo tool while the selection is
\* locked leaves the gizmo detached.
LockDetachesGizmo ==
    [][ /\ \A n \in Nodes :
              (~locked[n] /\ locked'[n] /\ selectedObject = n /\ gizmoObject = n)
                 => (gizmoObject' = None /\ selectedObject' = n)
        /\ \/ gizmoObject' = None
           \/ ~(/\ activeTool' \in GizmoTools
                /\ selectedObject # None /\ locked[selectedObject]
                /\ (KeyTool \/ BtnTool))
      ]_vars

\* a locked selection under a gizmo tool, highlighted, without the gizmo
LockDetachesGizmoWitness ==
    /\ selectedObject # None /\ locked[selectedObject]
    /\ activeTool \in GizmoTools /\ gizmoMode = ModeOfTool(activeTool)
    /\ selectionBoxVisible /\ gizmoObject = None

\* C10: activating Move, Rotate or Scale with a selection leaves the gizmo
\* on the selected node iff that node is unlocked; activating Select, Build,
\* Break or Pipette leaves the gizmo detached.
ToolSetsGizmo ==
    [][ \/ IF activeTool' \in GizmoTools
           THEN selectedObject # None =>
                   /\ (gizmoObject' = selectedObject) <=> ~locked[selectedObject]
                   /\ gizmoObject' \in {selectedObject, None}
           ELSE gizmoObject' = None
        \/ ~(KeyTool \/ BtnTool)
      ]_vars

\* the gizmo on the unlocked selection in the mode of the Scale tool
ToolSetsGizmoWitness ==
    /\ activeTool = "scale" /\ gizmoMode = "scale"
    /\ selectedObject # None /\ ~locked[selectedObject]
    /\ gizmoObject = selectedObject

\* C11: an attached gizmo means a gizmo tool is active, the attached node is
\* the selection and that node is not locked.
GizmoAttachedOnlyWhenAllowed ==
    gizmoObject # None =>
        /\ activeTool \in GizmoTools
        /\ gizmoObject = selectedObject
        /\ ~locked[gizmoObject]

\* the gizmo on the selection under the Rotate tool, in its mode
GizmoAttachedWitness ==
    /\ gizmoObject # None /\ gizmoObject = selectedObject
    /\ activeTool = "rotate" /\ gizmoMode = "rotate"
    /\ selectionBoxVisible

----------------------------------------------------------------------------
(* Properties of the voxel tools (SpecBrush, SpecSnap) *)

\* C12: a press with the Build tool executes exactly one Add command when a
\* hover target exists and none otherwise; the added node is a box of side
\* brushSize and colour brushColor under the UserLayer group, centred on the
\* hover target's (integer) coordinate.
BuildAddsOneVoxel ==
    [][ (~dragging /\ activeTool = "build") =>
          \/ IF hoveredVoxel # NoHover
             THEN /\ index' = index + 1
                  /\ Len(history') = index' + 1
                  /\ SubSeq(history', 1, index + 1) = SubSeq(history, 1, index + 1)
                  /\ LET cmd == history'[index' + 1]
                         v == cmd.voxel
                     IN /\ cmd.type = "Add"
                        /\ kind[v] = "Free" /\ kind'[v] = "Mesh"
                        /\ width'[v] = brushSize * 10 /\ xform'[v].scale = 1
                        /\ color'[v] = brushColor
                        /\ parent'[v] = cmd.parent
                        /\ kind'[cmd.parent] = "Group"
                        /\ name'[cmd.parent] = "UserLayer"
                        /\ xform'[v].position =
                              <<hoveredVoxel.x, hoveredVoxel.y, hoveredVoxel.z>>
                        /\ \A i \in 1..3 : xform'[v].position[i] \in Int
             ELSE /\ history' = history /\ index' = index
                  /\ parent' = parent /\ xform' = xform /\ locked' = locked
          \/ ~MouseDownBuild
      ]_vars

\* a red box of side 3 built under UserLayer by the first command of the log
BuildAddsOneVoxelWitness ==
    /\ index = 0 /\ history[1].type = "Add"
    /\ LET v == history[1].voxel
       IN /\ width[v] = 30 /\ color[v] = "cc0000"
          /\ parent[v] # None /\ name[parent[v]] = "UserLayer"
          /\ xform[v].position[2] = 2

\* C13: after a pointer move with a valid hit, each coordinate of the hover
\* target is an integer nearest to hitPoint + faceNormal * brushSize / 2 under
\* the Build tool and to hitPoint - faceNormal * brushSize / 2 under Break and
\* Pipette; brush size 3, Build, hit (2.1, 0.4, 2.9), normal (0, 1, 0) gives
\* (2, 2, 3).
SnapIsNearest ==
    hoveredVoxel # NoHover =>
        LET c == <<hoveredVoxel.x, hoveredVoxel.y, hoveredVoxel.z>>
            half(i) == pointer.normal[i] * pointer.size * 5
            target(i) == IF pointer.tool = "build" THEN pointer.point[i] + half(i)
                         ELSE pointer.point[i] - half(i)
        IN /\ pointer.tool \in {"build", "break", "pipette"}
           /\ \A i \in 1..3 : 10 * c[i] - target(i) \in -5..5
           /\ (/\ pointer.tool = "build" /\ pointer.size = 3
               /\ pointer.point = <<21, 4, 29>> /\ pointer.normal = <<0, 1, 0>>)
              => c = <<2, 2, 3>>

\* the hover target of the example: brush size 3, Build, hit (2.1, 0.4, 2.9)
\* on a face of normal (0, 1, 0)
SnapExampleWitness ==
    /\ pointer = [point |-> <<21, 4, 29>>, normal |-> <<0, 1, 0>>,
                  tool |-> "build", size |-> 3]
    /\ hoveredVoxel # NoHover
    /\ <<hoveredVoxel.x, hoveredVoxel.y, hoveredVoxel.z>> = <<2, 2, 3>>
    /\ xform[GhostCursor].position = <<2, 2, 3>>

\* C14 as stated: a press with the Break tool on an unlocked mesh that is not
\* an InstancedMesh makes the log one entry longer and takes the mesh from its
\* parent; with no hover target or a locked one, graph and log are unchanged.
BreakLengthensLog ==
    [][ (~dragging /\ activeTool = "break") =>
          \/ LET target == hoveredVoxel.hitObj
             IN IF hoveredVoxel # NoHover /\ ~locked[target]
                THEN kind[target] # "InstancedMesh" =>
                        /\ Len(history') = Len(history) + 1
                        /\ history'[Len(history')].type = "Remove"
                        /\ parent'[target] = None
                ELSE /\ history' = history /\ index' = index
                     /\ parent' = parent /\ xform' = xform /\ locked' = locked
          \/ ~MouseDownBreak
      ]_vars

\* C14, amended: such a press executes exactly one Remove command: the log
\* is cut after the cursor, the command is appended and the cursor moves onto
\* it (so the log grows by one exactly when nothing was undone), and the mesh
\* leaves its parent; with no hover target or a locked one, graph and log are
\* unchanged.
BreakExecutesOneRemove ==
    [][ (~dragging /\ activeTool = "break") =>
          \/ LET target == hoveredVoxel.hitObj
             IN IF hoveredVoxel # NoHover /\ ~locked[target]
                THEN kind[target] # "InstancedMesh" =>
                        /\ index' = index + 1
                        /\ Len(history') = index' + 1
                        /\ SubSeq(history', 1, index + 1) = SubSeq(history, 1, index + 1)
                        /\ history'[index' + 1] =
                              RemoveVoxelCommand(ParentOrScene(St, target), target)
                        /\ parent'[target] = None
                        /\ \A n \in Nodes \ {target} : parent'[n] = parent[n]
                        /\ (index = Len(history) - 1) <=> (Len(history') = Len(history) + 1)
                ELSE /\ history' = history /\ index' = index
                     /\ parent' = parent /\ xform' = xform /\ locked' = locked
          \/ ~MouseDownBreak
      ]_vars

\* a second Remove put on the log by a press after an undo: the log keeps
\* its length; and a locked hover target left alone
BreakExecutesOneRemoveWitness ==
    /\ ~linear /\ Len(history) = 1 /\ index = 0
    /\ history[1].type = "Remove"
    /\ hoveredVoxel.hitObj = history[1].voxel
    /\ parent[history[1].voxel] = None
    /\ activeTool = "break"

\* C15: a press with the Break tool on an InstancedMesh hides the instance
\* under the pointer and leaves the log and the cursor as they are; no step,
\* undo and redo included, makes a hidden instance visible again.
InstanceBreakOutsideLog ==
    [][ /\ \A n \in Nodes : instanceHidden[n] \subseteq instanceHidden'[n]
        /\ (/\ ~dragging /\ activeTool = "break" /\ hoveredVoxel # NoHover
            /\ kind[hoveredVoxel.hitObj] = "InstancedMesh"
            /\ ~locked[hoveredVoxel.hitObj])
           => \/ /\ hoveredVoxel.hitId \in instanceHidden'[hoveredVoxel.hitObj]
                 /\ history' = history /\ index' = index
                 /\ parent' = parent
              \/ ~MouseDownBreak
      ]_vars

\* an instance that stays hidden while the one executed Remove command has
\* been undone
InstanceBreakWitness ==
    /\ instanceHidden["A"] = {1}
    /\ parent["A"] = Scene
    /\ Len(history) = 1 /\ index = -1 /\ history[1].type = "Remove"

\* C16: a press with the Pipette tool less than DblClickMs after the previous
\* press, on a box of side L that is not an InstancedMesh, sets the brush
\* size to round(L) clamped into MinSize..MaxSize; on an InstancedMesh it
\* leaves the brush size unchanged.
PipetteDoubleClamps ==
    [][ (/\ ~dragging /\ activeTool = "pipette" /\ hoveredVoxel # NoHover
         /\ now - lastPipetteClick < DblClickMs) =>
          \/ LET target == hoveredVoxel.hitObj
                 side == xform[target].scale * width[target]
                 clamped == IF side < 10 * MinSize + 5 THEN MinSize
                            ELSE IF side >= 10 * MaxSize - 5 THEN MaxSize
                            ELSE (side + 5) \div 10
             IN IF kind[target] = "InstancedMesh"
                THEN brushSize' = brushSize
                ELSE brushSize' = clamped
          \/ ~MouseDownPipette
      ]_vars

\* C17: the brush size is an integer from MinSize to MaxSize in every
\* reachable state, whatever slider inputs and Pipette presses (on boxes of
\* any side) have occurred.
BrushSizeInRange == brushSize \in MinSize..MaxSize

\* brush size 4 with the colour of the box of side 4 under the Pipette, right
\* after a press
BrushSizeWitness ==
    /\ brushSize = 4 /\ width["B"] = 40
    /\ activeTool = "pipette" /\ hoveredVoxel.hitObj = "B"
    /\ brushColor = color["B"] /\ lastPipetteClick = now

----------------------------------------------------------------------------
(* Properties of selection, hover and gizmo drags (Spec) *)

\* C18: a press with the Select tool leaves as selection either nothing or a
\* node that is not an editor widget (the ghost cursor) and has no locked node
\* on its chain of ancestors, itself included.
SelectSkipsWidgetsAndLocked ==
    [][ (~dragging /\ activeTool = "select") =>
          \/ /\ selectedObject' # GhostCursor
             /\ selectedObject' # None => ~LockedChain(St, selectedObject')
          \/ ~MouseDownSelect
      ]_vars

\* C19: whenever the active tool is Select, Move, Rotate or Scale there is no
\* hover target; and a pointer move that leaves no hover target (no valid
\* hit) leaves the ghost hidden.
HoverOnlyUnderVoxelTools ==
    [][ /\ activeTool' \in {"select", "move", "rotate", "scale"} => hoveredVoxel' = NoHover
        /\ (activeTool \in {"build", "break", "pipette"} /\ hoveredVoxel' = NoHover)
           => (~ghostVisible' \/ ~MouseMove)
      ]_vars

\* C20: the release that ends a gizmo drag executes exactly one Transform
\* command, holding the drag-start snapshot and the state at the release, if
\* position, orientation or scale of the node differ from the snapshot, and
\* leaves the log and the cursor unchanged if they do not.
DragCommandIffChanged ==
    [][ (dragging /\ gizmoObject # None) =>
          \/ IF xform[gizmoObject] # gizmoStart
             THEN /\ index' = index + 1
                  /\ Len(history') = index' + 1
                  /\ LET cmd == history'[index' + 1]
                     IN /\ cmd.type = "Transform" /\ cmd.voxel = gizmoObject
                        /\ cmd.oldState = GizmoStartRef /\ gizmoStart' = gizmoStart
                        /\ cmd.newState = xform[gizmoObject]
             ELSE history' = history /\ index' = index
          \/ ~DragEnd
      ]_vars

----------------------------------------------------------------------------
(* Frame properties of undo, redo, Focus and lock (Spec) *)

\* C21: undo() with the cursor below the first entry changes neither the
\* log, the cursor nor the graph; otherwise it reverts the command at the
\* cursor, and only that one, and moves the cursor back by one.
UndoFrame ==
    [][ \/ IF index < 0
           THEN /\ history' = history /\ index' = index
                /\ parent' = parent /\ children' = children
                /\ xform' = xform /\ locked' = locked
           ELSE LET cmd == history[index + 1]
                IN /\ history' = history /\ index' = index - 1
                   /\ locked' = locked
                   /\ \A n \in Nodes \ {cmd.voxel} :
                         parent'[n] = parent[n] /\ xform'[n] = xform[n]
                   /\ IF cmd.type = "Add"
                      THEN parent'[cmd.voxel] = None /\ xform'[cmd.voxel] = xform[cmd.voxel]
                      ELSE IF cmd.type = "Remove"
                      THEN parent'[cmd.voxel] = cmd.parent /\ xform'[cmd.voxel] = xform[cmd.voxel]
                      ELSE parent'[cmd.voxel] = parent[cmd.voxel]
                           /\ xform'[cmd.voxel] = gizmoStart
        \/ ~(KeyUndo \/ BtnUndo)
      ]_vars

\* two commands undone, the second of them first: the cursor is below the
\* first entry and one more undo() is the no-op
UndoFrameWitness ==
    /\ ~linear /\ Len(history) = 2 /\ index = -1
    /\ history[1].type = "Remove" /\ history[2].type = "Add"
    /\ parent[history[1].voxel] = history[1].parent
    /\ parent[history[2].voxel] = None
    /\ undoDisabled

\* C22: redo() with the cursor on the last entry, or with an empty log,
\* changes neither the log, the cursor nor the graph; otherwise it moves the
\* cursor forward by one and applies the command now at the cursor, and only
\* that one; it never changes the length of the log.
RedoFrame ==
    [][ \/ IF index >= Len(history) - 1
           THEN /\ history' = history /\ index' = index
                /\ parent' = parent /\ children' = children
                /\ xform' = xform /\ locked' = locked
           ELSE LET cmd == history[index + 2]
                IN /\ history' = history /\ index' = index + 1
                   /\ locked' = locked
                   /\ \A n \in Nodes \ {cmd.voxel} :
                         parent'[n] = parent[n] /\ xform'[n] = xform[n]
                   /\ IF cmd.type = "Add"
                      THEN parent'[cmd.voxel] = cmd.parent /\ xform'[cmd.voxel] = xform[cmd.voxel]
                      ELSE IF cmd.type = "Remove"
                      THEN parent'[cmd.voxel] = None /\ xform'[cmd.voxel] = xform[cmd.voxel]
                      ELSE parent'[cmd.voxel] = parent[cmd.voxel]
                           /\ xform'[cmd.voxel] = cmd.newState
        \/ ~(KeyRedo \/ BtnRedo)
      ]_vars

\* the cursor back on the last of two entries, a Remove whose node is out of
\* the graph, after the cursor has moved by undo(): one more redo() is the
\* no-op
RedoFrameWitness ==
    /\ ~linear /\ Len(history) = 2 /\ index = 1
    /\ history[1].type = "Add" /\ history[2].type = "Remove"
    /\ parent[history[2].voxel] = None
    /\ parent[history[1].voxel] = history[1].parent
    /\ redoDisabled /\ ~dragging

\* C23: the Focus item of the context menu re-aims the camera controller's
\* look-at target at the node and changes nothing else of the edit state: no
\* entry is put on the log, and the cursor, the graph and every transform
\* stay as they are.
FocusFrame ==
    [][ (ctxMenu.shown /\ ~dragging) =>
          \/ /\ history' = history /\ index' = index
             /\ parent' = parent /\ children' = children
             /\ xform' = xform /\ locked' = locked
             /\ selectedObject' = selectedObject /\ activeTool' = activeTool
             /\ env.controls => controlsTarget' = xform[ctxMenu.obj].position
          \/ ~CtxFocus
      ]_vars

\* the look-at target on a clone, two units off its source on each axis,
\* with the Add of the clone the only entry of the log
FocusFrameWitness ==
    /\ controlsTarget = <<2, 2, 2>>
    /\ ~ctxMenu.shown
    /\ Len(history) = 1 /\ index = 0 /\ history[1].type = "Add"
    /\ xform[history[1].voxel].position = <<2, 2, 2>>

\* C24: a click on a lock button flips the lock flag of its node only and
\* leaves the log and the cursor as they are; no undo() and no redo() changes
\* a lock flag.
LockOutsideLog ==
    [][ /\ \/ /\ history' = history /\ index' = index
              /\ \E n \in Nodes : locked' = [locked EXCEPT ![n] = ~locked[n]]
           \/ ~LockBtnClick
        /\ \/ locked' = locked
           \/ ~(KeyUndo \/ BtnUndo \/ KeyRedo \/ BtnRedo)
      ]_vars

\* a node locked after its clone was made, still locked and the log intact
\* once the Add has been undone
LockOutsideLogWitness ==
    /\ ~linear /\ Len(history) = 1 /\ index = -1 /\ history[1].type = "Add"
    /\ locked[history[1].voxel] /\ parent[history[1].voxel] = None

----------------------------------------------------------------------------
(* Start-up (SpecBoot) *)

\* what the page has of the editor: nothing
NothingInstalled ==
    /\ ~env.installed
    /\ tree = <<>> /\ ctxMenu = HiddenMenu
    /\ history = <<>> /\ index = -1
    /\ gizmoObject = None /\ ~selectionBoxVisible /\ ~ghostVisible
    /\ parent[GhostCursor] = None

\* C25: if the page lacks the scene, the camera or the renderer, or
\* TransformControls cannot be imported, the script shows one alert and
\* stops: nothing of the editor is installed, no handler ever runs and the
\* scene stays as the page made it; a page that lacks only the camera
\* controller gets the editor.
BootFailsClosed ==
    /\ [](LET required == env.scene /\ env.camera /\ env.renderer /\ env.addon
          IN /\ ~required =>
                  /\ env.alerts = 1
                  /\ NothingInstalled
                  /\ parent = PageParent(env) /\ children = PageChildren(env)
                  /\ xform = [n \in Nodes |-> IdentityXform]
             /\ (required /\ env.three) => (env.installed /\ env.alerts = 0))
    /\ [][env.installed]_vars

\* a page with a scene but no camera, after the script returned
BootFailsClosedWitness ==
    /\ env.scene /\ ~env.camera /\ env.renderer /\ env.addon
    /\ env.alerts = 1 /\ NothingInstalled
    /\ parent["A"] = Scene

----------------------------------------------------------------------------
(* Pause (SpecPause) *)

\* s with the pause flag the other way
Flip(s) == [s EXCEPT !.isPaused = ~s.isPaused]

\* handler h has the same effect from St whether the scene is paused or not
SameWhenPaused(h(_)) == h(Flip(St)) = Flip(h(St))

\* every editor operation has the same effect whether paused or not
PauseIndependent ==
    /\ \A toolId \in Tools : SameWhenPaused(LAMBDA s : setTool(s, toolId))
    /\ SameWhenPaused(ManagerUndo)
    /\ SameWhenPaused(ManagerRedo)
    /\ SameWhenPaused(keyDelete)
    /\ \A i \in 1..Len(tree) :
          /\ SameWhenPaused(LAMBDA s : selectObject(s, tree[i].obj))
          /\ SameWhenPaused(LAMBDA s : showCtxMenu(s, tree[i].obj))
          /\ SameWhenPaused(LAMBDA s : lockBtnClick(s, tree[i].obj))
    /\ ctxMenu.shown =>
          /\ SameWhenPaused(LAMBDA s : ctxDelete(s, ctxMenu.obj))
          /\ Len(FreeNodes(St)) >= Len(CloneSources(St, ctxMenu.obj))
                => SameWhenPaused(LAMBDA s : ctxClone(s, ctxMenu.obj))
    /\ \A intersects \in Intersections(St) :
          /\ SameWhenPaused(LAMBDA s : mouseDownSelect(s, intersects))
          /\ \A coord \in 0..MaxCoord :
                SameWhenPaused(LAMBDA s : mouseMove(s, intersects, <<10 * coord, 0, 0>>,
                                                    <<0, 1, 0>>, NoId))
    /\ Len(FreeNodes(St)) >= 2 => SameWhenPaused(mouseDownBuild)
    /\ SameWhenPaused(mouseDownBreak)
    /\ SameWhenPaused(mouseDownPipette)

\* C26: toggling pause changes the paused flag and nothing of tool,
\* selection, hover target, brush, log or graph; and every editor operation
\* (tool change, select, build, break, pipette, undo, redo, lock, delete,
\* clone) has the same effect on the editor whether the scene is paused or
\* not.
PauseOnlyStopsTheClock ==
    /\ []PauseIndependent
    /\ [][ isPaused' # isPaused =>
             /\ activeTool' = activeTool /\ selectedObject' = selectedObject
             /\ hoveredVoxel' = hoveredVoxel
             /\ brushSize' = brushSize /\ brushColor' = brushColor
             /\ history' = history /\ index' = index
             /\ parent' = parent /\ children' = children
             /\ xform' = xform /\ locked' = locked /\ kind' = kind
          ]_vars

\* the scene paused after a Build, whose Add was then undone while paused
PauseWitness ==
    /\ isPaused /\ ~linear
    /\ Len(history) = 1 /\ index = -1 /\ history[1].type = "Add"
    /\ activeTool = "build"

----------------------------------------------------------------------------
(* Lock filtering, tool changes, ghost and tree (Spec) *)

\* a pointer move under a voxel tool takes the nearest hit that is not a
\* widget and whose own lock flag is off, whatever its ancestors' flags
HoverFilterDirect ==
    activeTool \in {"build", "break", "pipette"} =>
        \A o \in RenderedMeshes(St) \ {GhostCursor} :
            mouseMove(St, <<o>>, <<0, 0, 0>>, <<0, 1, 0>>, NoId).hoveredVoxel.hitObj
                = (IF locked[o] THEN None ELSE o)

KeysDistinct ==
    /\ \A i, j \in 1..Len(toolDefs) :
          (i # j /\ toolDefs[i].id # None /\ toolDefs[j].id # None)
              => toolDefs[i].key # toolDefs[j].key
    /\ {toolDefs[i].id : i \in 1..Len(toolDefs)} \ {None} = Tools
    /\ \A i \in 1..Len(toolDefs) :
          toolDefs[i].id # None =>
              keyDownTool(St, toolDefs[i].key).activeTool = toolDefs[i].id

\* C28: the active tool is always one of the seven tools, each with a
\* shortcut key of its own, and it changes only by a tool button or a
\* shortcut key: pointer moves, presses (a Pipette press included), undo,
\* redo, lock clicks and context menu items leave it as it is.
ToolChangesOnlyByActivation ==
    /\ [](activeTool \in Tools /\ Cardinality(Tools) = 7 /\ KeysDistinct)
    /\ [][activeTool' # activeTool => (KeyTool \/ BtnTool)]_vars

\* the Pipette still the active tool right after a press that took the
\* colour of mesh A
ToolStaysWitness ==
    /\ activeTool = "pipette" /\ hoveredVoxel.hitObj = "A"
    /\ brushColor = color["A"] /\ lastPipetteClick = now

\* C29: activating Build or Break (by button or key) leaves the ghost
\* cursor visible, and whenever the active tool is Select, Move, Rotate or
\* Scale the ghost cursor is hidden.
GhostFollowsTool ==
    /\ [](/\ activeTool \in {"select", "move", "rotate", "scale"} => ~ghostVisible
          /\ \A t \in {"build", "break"} : setTool(St, t).ghostVisible)
    /\ [][ \/ activeTool' \notin {"build", "break"}
           \/ ghostVisible'
           \/ ~(KeyTool \/ BtnTool) ]_vars

\* the Move tool active with the ghost cursor hidden, after the ghost had
\* followed the pointer under a voxel tool
GhostFollowsToolWitness ==
    /\ activeTool = "move" /\ ~ghostVisible
    /\ xform[GhostCursor].position # <<0, 0, 0>>

\* the rows' indicators are those of their nodes, and no node has two rows
RowsCurrent ==
    /\ \A i \in 1..Len(tree) :
          /\ tree[i].locked = locked[tree[i].obj]
          /\ tree[i].selected = (tree[i].obj = selectedObject)
    /\ \A i, j \in 1..Len(tree) : tree[i].obj = tree[j].obj => i = j

----------------------------------------------------------------------------
(* The application shell as a state machine: the buttons the render shows   *)
(* and enables, the paste listener, and the settling of requests.           *)

editorVars == <<activeTool, selectedObject, hoveredVoxel, parent, children,
                locked, xform, kind, name, history, index, gizmoStart,
                gizmoObject, gizmoMode, gizmoAxis, dragging,
                selectionBoxVisible, ghostVisible, ctxMenu, tree,
                undoDisabled, redoDisabled, brushSize, brushColor,
                lastPipetteClick, now, width, color, instanceHidden, isPaused,
                controlsTarget, env, pointer, linear, events>>

\* one handler or continuation of the shell run, taking its state to a
AppStep(a) ==
    /\ app.steps < MaxShellSteps
    /\ \E r \in {a} :
          /\ r # app
          /\ app' = [r EXCEPT !.steps = app.steps + 1]
    /\ UNCHANGED editorVars

Room == Cardinality(app.pending) < MaxPending
PendingOf(k) == {r \in app.pending : r.kind = k}

\* the description typed or erased
SetDescPrompt == \E v \in {"", "castle"} :
    /\ app.showGenerator /\ ~isLoading(app)
    /\ AppStep([app EXCEPT !.descPrompt = v])

GenerateImageClick ==
    /\ app.showGenerator /\ ~isLoading(app)
    /\ (app.descPrompt # "" \/ app.inputImages # <<>>)
    /\ AppStep(onGenerateImageClick(app))

ConfirmImage ==
    /\ app.showGenerator /\ app.showGenConfirm /\ Room
    /\ AppStep(confirmImageGeneration(app))

CancelConfirm ==
    /\ app.showGenerator /\ app.showGenConfirm
    /\ AppStep([app EXCEPT !.showGenConfirm = FALSE])

\* the Voxelize button of the panel or of the confirmation dialog
Voxelize ==
    /\ app.showGenerator /\ Room
    /\ \/ app.showGenConfirm
       \/ /\ ~isLoading(app)
          /\ (app.descPrompt # "" \/ app.inputImages # <<>> \/ app.voxelCode # NoCode)
    /\ AppStep(handleVoxelize(app))

ImageSettled == \E r \in PendingOf("image") : \E ok \in BOOLEAN :
    AppStep(imageSettled(app, r, ok))

VoxelsSettled == \E r \in PendingOf("voxels") : \E ok \in BOOLEAN :
    AppStep(voxelsSettled(app, r, ok))

\* a file chosen, dropped or pasted with the panel's button
FileChosen == \E valid \in BOOLEAN :
    /\ app.showGenerator /\ Room
    /\ AppStep(processFile(app, valid, app.voxelCode, app.descPrompt))

\* the document's paste listener, made by the first render
Paste == \E valid \in BOOLEAN :
    /\ Room
    /\ AppStep(processFile(app, valid, AppInit.voxelCode, AppInit.descPrompt))

FileRead == \E r \in PendingOf("file") : \E ok \in BOOLEAN :
    /\ ok => Len(app.inputImages) < MaxImages
    /\ AppStep(fileRead(app, r, ok))

ClearImages ==
    /\ app.showGenerator /\ Len(app.inputImages) > 1
    /\ AppStep(clearImages(app))

RemoveImage == \E idx \in 0..MaxImages - 1 :
    /\ app.showGenerator /\ idx < Len(app.inputImages)
    /\ AppStep(removeImage(app, idx))

ExampleClick == \E i \in Examples :
    /\ ~isLoading(app) /\ Room
    /\ AppStep(handleExampleClick(app, i))

ExampleSettled == \E r \in PendingOf("example") : \E outcome \in ExampleOutcomes :
    AppStep(exampleSettled(app, r, outcome))

UserTileClick ==
    /\ ~isLoading(app)
    /\ AppStep(handleUserTileClick(app))

ToggleView ==
    /\ ToolbarShown(app) /\ app.inputImages # <<>> /\ app.voxelCode # NoCode
    /\ AppStep([app EXCEPT !.viewMode = IF @ = "image" THEN "voxel" ELSE "image"])

ToggleEditor ==
    /\ ToolbarShown(app) /\ app.viewMode = "voxel" /\ app.voxelCode # NoCode
    /\ AppStep(handleToggleEditor(app))

DismissError ==
    /\ app.isViewerVisible /\ app.status = "error"
    /\ AppStep([app EXCEPT !.status = "idle"])

\* the button that reopens the panel on the user's scene
EditScene ==
    /\ ToolbarShown(app) /\ app.selectedTile = "user" /\ app.voxelCode # NoCode
    /\ AppStep([app EXCEPT !.showGenerator = TRUE, !.isViewerVisible = FALSE])

NextShell ==
    \/ SetDescPrompt \/ GenerateImageClick \/ ConfirmImage \/ CancelConfirm
    \/ Voxelize \/ ImageSettled \/ VoxelsSettled
    \/ FileChosen \/ Paste \/ FileRead \/ ClearImages \/ RemoveImage
    \/ ExampleClick \/ ExampleSettled \/ UserTileClick
    \/ ToggleView \/ ToggleEditor \/ DismissError \/ EditScene

SpecShell == Init /\ [][NextShell]_vars

\* the tiles alone: clicks on them and the settling of example loads
NextTiles == ExampleClick \/ ExampleSettled \/ UserTileClick

SpecTiles == Init /\ [][NextTiles]_vars

\* C31: the undo button is disabled exactly when the cursor is below the
\* first log entry, and the redo button exactly when the cursor is at the
\* last entry of the log (the cursor never lies beyond it).
ButtonsFollowCursor ==
    /\ undoDisabled = (index < 0)
    /\ redoDisabled = (index = Len(history) - 1)
    /\ index \in -1..Len(history) - 1

\* the cursor in the middle of a log of two commands after an undo: both
\* buttons enabled
ButtonsWitness ==
    /\ Len(history) = 2 /\ index = 0 /\ ~undoDisabled /\ ~redoDisabled

\* C32: whenever the manipulator is attached under Move, Rotate or Scale,
\* its mode is the one of the active tool, whatever the order of tool
\* activation and selection.
GizmoModeMatchesTool ==
    (gizmoObject # None /\ activeTool \in GizmoTools)
        => gizmoMode = ModeOfTool(activeTool)

\* C33: the beforeState carried by a TransformCommand does not change while
\* the command stays in the log: no step, a later drag in particular, alters
\* the state its oldState denotes.
BeforeStateFrozen ==
    [][ \A i \in 1..Len(history) :
          (/\ history[i].type = "Transform"
           /\ i <= Len(history')
           /\ history'[i] = history[i])
              => Deref(St, history[i].oldState)' = Deref(St, history[i].oldState)
      ]_vars

\* C34: a step that puts a RemoveVoxelCommand on the log acts on a node that
\* is in the scene graph as a child of the command's parent; a Break or
\* Delete aimed at a node already removed logs nothing.
RemoveAimsAtPresentNode ==
    [][ (/\ history' # history
         /\ Len(history') > 0
         /\ history'[Len(history')].type = "Remove")
            => /\ parent[history'[Len(history')].voxel] = history'[Len(history')].parent
               /\ InGraph(St, history'[Len(history')].voxel)
      ]_vars

\* C35: a Build press that places a node uses a hover target that the last
\* pointer move computed under the Build tool and with the brush size of
\* the moment of the press.
BuildUsesFreshHover ==
    [][ \/ activeTool # "build"
        \/ history' = history
        \/ (pointer.tool = "build" /\ pointer.size = brushSize)
        \/ ~MouseDownBuild ]_vars

\* C36: the scene graph holds at most one container named UserLayer.
OneUserLayer ==
    Cardinality({n \in Nodes : name[n] = "UserLayer" /\ InGraph(St, n)}) <= 1

\* C37: whenever the editor flag is off, the scene document does not hold
\* the editor script (so that activating the editor never injects into a
\* document that holds it already).
EditorFlagTracksDocument ==
    (app.voxelCode # NoCode /\ ~app.isEditorActive) => ~app.voxelCode.editor

\* C38: while a generation request is under way the status is the
\* generating status of that request, and no second one is under way.
GenerationExclusive ==
    LET gen == PendingOf("image") \cup PendingOf("voxels")
    IN gen # {} =>
          /\ Cardinality(gen) = 1
          /\ \A r \in gen :
                app.status = IF r.kind = "image" THEN "generating_image"
                             ELSE "generating_voxels"

\* C39: with no example load under way and no error shown, the images and
\* the scene document are those of the selected tile: the example's, or
\* the user's content (nothing when there is none).
TileShown ==
    (PendingOf("example") = {} /\ app.status = "idle") =>
        IF app.selectedTile \in Examples
        THEN /\ app.inputImages = <<app.selectedTile>>
             /\ app.voxelCode \in {Document(app.selectedTile), Document("placeholder")}
        ELSE IF app.selectedTile = "user"
        THEN /\ app.inputImages = app.userContent.images
             /\ app.voxelCode = app.userContent.voxel
        ELSE TRUE

====
